---- MODULE Spec2Model ----
(***************************************************************************)
(* Model of the browser-driven login wait loop of jsm_form                 *)
(* (src/jsm_form/src/web/login.rs, wait_for_ticket_page) together with the *)
(* step-through checkpoint controller (src/jsm_form/src/web/step.rs).      *)
(*                                                                         *)
(* Time is counted in whole seconds: one poll sleep is PollSecs, a blocked *)
(* pause lasts 0..MaxPauseSecs, everything else takes no time.  The        *)
(* browser (URL reads, script results) and the operator stream (pause      *)
(* acknowledgments) are the environment: each read is a nondeterministic   *)
(* choice.  URLs are sequences of text fragments, and contains/starts_with *)
(* are computed on them fragment by fragment.                              *)
(*                                                                         *)
(* Specifications:                                                         *)
(*   Spec          wait_for_ticket_page with its StepController            *)
(*   LiveSpec      Spec with the steps of the call weakly fair             *)
(*   ClassifySpec  the provider dispatch chain applied to single URLs      *)
(*   ProbeSpec     is_on_ticket_page applied to URLs and ticket ids        *)
(*   StepSpec      StepController::pause called from several threads       *)
(*   ClientSpec    JsmWebClient::complete_risk_assessment                  *)
(*   FormSpec      the form operations of JsmWebClient applied to pages    *)
(*   InjectorSpec  the credential injectors applied to login pages         *)
(*   SubmitSpec    the Submit command of main.rs with form::submit_form    *)
(* Each leaves the variables of the others at their idle values.           *)
(***************************************************************************)
EXTENDS Integers, Sequences, FiniteSets, TLC

(* ------------------------------ bounds -------------------------------- *)

\* timeout_secs handed to wait_for_ticket_page (the caller passes 45).
TimeoutSecs == 3
\* longest time the operator lets one pause block.
MaxPauseSecs == 1
\* poll ticks explored in one call.
MaxTicks == 5

(* --------------------------- program constants ------------------------ *)

\* std::thread::sleep(Duration::from_millis(1000))
PollSecs == 1

(* ------------------------------- URLs --------------------------------- *)

TicketId == <<"ITH-", "1">>

AtlassianHost == <<"https://id.atlassian.com/">>
MicrosoftHost == <<"https://login.microsoftonline.com/">>

UrlSiteLogin   == <<"https://acme.atlassian.net", "/", "login">>
UrlAtlLogin    == <<"https://id.atlassian.com/", "login">>
UrlAtlJoin     == <<"https://id.atlassian.com/", "join/user-access">>
UrlMsLogin     == <<"https://login.microsoftonline.com/", "common/oauth2">>
UrlMsReprocess == <<"https://login.microsoftonline.com/", "common/", "reprocess">>
UrlTicket      == <<"https://acme.atlassian.net", "/browse/", "ITH-", "1">>

\* the URLs the browser can report
Urls == {UrlSiteLogin, UrlAtlLogin, UrlAtlJoin, UrlMsLogin, UrlMsReprocess, UrlTicket}

NoUser == "<none>"
User   == "alice@acme.com"

\* whitespace fragments of a configured value
Blanks == {" "}

\* auth.username as configured: blanks around at most one text
ConfigUsernames ==
    {<<>>, <<" ">>, <<" ", " ">>, <<User>>, <<" ", User>>, <<User, " ">>, <<" ", User, " ">>}

RECURSIVE TrimStart(_)
TrimStart(s) == IF s # <<>> /\ Head(s) \in Blanks THEN TrimStart(Tail(s)) ELSE s

RECURSIVE TrimEnd(_)
TrimEnd(s) ==
    IF s # <<>> /\ s[Len(s)] \in Blanks THEN TrimEnd(SubSeq(s, 1, Len(s) - 1)) ELSE s

\* str::trim
Trim(s) == TrimEnd(TrimStart(s))

\* client.rs 75-82: `let trimmed = ..username.trim(); if trimmed.is_empty() { None }
\* else { Some(trimmed) }`; the trimmed value of a configured name is its text
login_username(configured) ==
    LET trimmed == Trim(configured)
    IN  IF trimmed = <<>> THEN NoUser ELSE trimmed[1]

(* --------------------------- string helpers --------------------------- *)

\* str::contains
Contains(s, pat) ==
    \E i \in 1..(Len(s) - Len(pat) + 1) : SubSeq(s, i, i + Len(pat) - 1) = pat

\* str::starts_with
StartsWith(s, prefix) ==
    /\ Len(prefix) <= Len(s)
    /\ SubSeq(s, 1, Len(prefix)) = prefix

(* ------------------------------ PageProbe ----------------------------- *)

\* is_on_ticket_page that accepts every page of the Jira site
is_on_ticket_page_AnySitePage(url, ticket_id) == StartsWith(url, <<"https://acme.atlassian.net">>)

\* is_on_ticket_page that accepts any ticket
is_on_ticket_page_AnyTicket(url, ticket_id) == Contains(url, <<"/browse/">>)

is_on_ticket_page(url, ticket_id) == Contains(url, <<"/browse/">> \o ticket_id)

\* Dispatch without the `if let Some(user) = username` around the chain
Dispatch_IgnoresUsername(url, username) ==
    IF StartsWith(url, AtlassianHost) /\ Contains(url, <<"login">>) THEN "atlassian"
    ELSE IF StartsWith(url, AtlassianHost) /\ Contains(url, <<"join/user-access">>) THEN "account"
    ELSE IF StartsWith(url, MicrosoftHost) THEN "microsoft"
    ELSE "none"

\* The if / else-if chain of wait_for_ticket_page that picks the injector.
Dispatch(url, username) ==
    IF username = NoUser THEN "none"
    ELSE IF StartsWith(url, AtlassianHost) /\ Contains(url, <<"login">>) THEN "atlassian"
    ELSE IF StartsWith(url, AtlassianHost) /\ Contains(url, <<"join/user-access">>) THEN "account"
    ELSE IF StartsWith(url, MicrosoftHost) THEN "microsoft"
    ELSE "none"

(* ---------------------------- StepController -------------------------- *)

\* StepController::new(enabled, skip_steps)
StepNew(enabled, skip_steps) ==
    [enabled |-> enabled, counter |-> 0, skip_steps |-> skip_steps]

\* what the operator stream does to one blocking read: acknowledge after
\* secs seconds, or fail
PauseEnv ==
    {[ok |-> TRUE, secs |-> d] : d \in 0..MaxPauseSecs} \cup {[ok |-> FALSE, secs |-> 0]}

\* StepController::pause: the counter is bumped first; a disabled controller and
\* a skipped step return Ok at once; otherwise the call blocks on read_line.
Pause(s, env) ==
    LET step_number == s.counter + 1
        s1 == [s EXCEPT !.counter = step_number]
    IN  IF ~s.enabled
          THEN [step |-> s1, ok |-> TRUE, secs |-> 0, blocked |-> FALSE]
        ELSE IF step_number \in s.skip_steps
          THEN [step |-> s1, ok |-> TRUE, secs |-> 0, blocked |-> FALSE]
        ELSE [step |-> s1, ok |-> env.ok, secs |-> env.secs, blocked |-> TRUE]

\* the outcomes of the operator stream that a pause call of controller s can
\* tell apart (a disabled controller never reads the stream)
PauseChoices(s) == IF s.enabled THEN PauseEnv ELSE {[ok |-> TRUE, secs |-> 0]}

\* a pause call the code does not make
NoPause(s) == [step |-> s, ok |-> TRUE, secs |-> 0, blocked |-> FALSE]

(* ---------------------- one injector arm of the loop ------------------ *)

Injectors == {"atlassian", "account", "microsoft"}

InjectorResults == {"Ok(true)", "Ok(false)", "Err"}

\* the injector results an arm can tell apart (none once its done flag is set)
ResultChoices(done) == IF done THEN {"Ok(false)"} ELSE InjectorResults

\* the operator outcomes the pause after result r can tell apart
AfterChoices(s, done, r) ==
    IF done \/ r = "Ok(false)" THEN {[ok |-> TRUE, secs |-> 0]} ELSE PauseChoices(s)

\* ShouldAttempt that ignores the done flag
ShouldAttempt_Always(done) == TRUE

\* `if !atlassian_username_done` (and the same test of the other two arms)
ShouldAttempt(done) == ~done

\* MarksDone that gives up after a not-ready result as well
MarksDone_Always(r) == TRUE

\* MarksDone that leaves the flag unset after an error
MarksDone_OnSuccess(r) == r = "Ok(true)"

\* `X_done = true` in the Ok(true) and Err branches of the match, absent from Ok(false)
MarksDone(r) == r \in {"Ok(true)", "Err"}

\* The arm `if !X_done { ... match try_X(tab, user) { ... } }`, the same text for
\* the three injectors.  exit: "continue" (the continue statement), "fall" (falls
\* through to the URL comparison), "pause_err" (a pause failed and ? returned it).
InjectorArm(done, prompted, s, r, p1, p2) ==
    IF ~ShouldAttempt(done)
      THEN [done |-> done, prompted |-> prompted, step |-> s, secs |-> 0,
            exit |-> "fall", outcome |-> "none", pauses |-> 0]
    ELSE
      LET ask  == s.enabled /\ ~prompted
          det  == IF ask THEN Pause(s, p1) ELSE NoPause(s)
          n1   == IF ask THEN 1 ELSE 0
          pr1  == IF ask THEN TRUE ELSE prompted
          aft  == IF s.enabled /\ r # "Ok(false)" THEN Pause(det.step, p2) ELSE NoPause(det.step)
          n2   == IF s.enabled /\ r # "Ok(false)" THEN 1 ELSE 0
      IN  IF ~det.ok
            THEN [done |-> done, prompted |-> prompted, step |-> det.step, secs |-> det.secs,
                  exit |-> "pause_err", outcome |-> "none", pauses |-> n1]
          ELSE IF r = "Ok(true)"
            THEN [done |-> MarksDone(r),
                  prompted |-> IF s.enabled THEN FALSE ELSE pr1,
                  step |-> aft.step, secs |-> det.secs + aft.secs,
                  exit |-> IF aft.ok THEN "continue" ELSE "pause_err",
                  outcome |-> r, pauses |-> n1 + n2]
          ELSE IF r = "Ok(false)"
            THEN [done |-> MarksDone(r),
                  prompted |-> IF s.enabled THEN FALSE ELSE pr1,
                  step |-> det.step, secs |-> det.secs,
                  exit |-> "fall", outcome |-> r, pauses |-> n1]
          ELSE [done |-> MarksDone(r), prompted |-> pr1,
                step |-> aft.step, secs |-> det.secs + aft.secs,
                exit |-> IF aft.ok THEN "fall" ELSE "pause_err",
                outcome |-> r, pauses |-> n1 + n2]

\* `else if step.enabled() && !microsoft_inspect_prompted { step.pause(..)?; .. }`
InspectArm(inspect_prompted, s, p1) ==
    IF s.enabled /\ ~inspect_prompted
      THEN LET p == Pause(s, p1)
           IN  [prompted |-> p.ok, step |-> p.step, secs |-> p.secs,
                exit |-> IF p.ok THEN "fall" ELSE "pause_err", pauses |-> 1]
    ELSE [prompted |-> inspect_prompted, step |-> s, secs |-> 0, exit |-> "fall", pauses |-> 0]

(* -------------------------------- state ------------------------------- *)

VARIABLES
    pc,                         \* "init" | "loop" | "done": position in wait_for_ticket_page
    username,                   \* Option<&str>: NoUser or the configured user
    step,                       \* the StepController
    elapsed,                    \* start_time.elapsed(), in seconds
    current_url,                \* let mut current_url
    new_url,                    \* the URL of the latest tab.get_url()
    atlassian_username_done,
    account_continue_done,
    microsoft_username_done,
    atlassian_prompted,
    account_prompted,
    microsoft_prompted,
    microsoft_inspect_prompted,
    result,                     \* "none" | "Ok(true)" | "Ok(false)" | "Err"
    reported_url,               \* the URL named in the timeout message, or <<>>
    ticks,                      \* loop iterations so far
    last,                       \* what the latest iteration did (observation only)
    since_change,               \* seconds since the latest read that differed from the read before it
    long_run,                   \* some run of identical reads has lasted TimeoutSecs or longer
    atl_run_calls,              \* try_fill_atlassian_username calls since the URL read last changed
    verdict                     \* per injector: the Ok(true) or Err it last returned, or "none"

flags == <<atlassian_username_done, account_continue_done, microsoft_username_done,
           atlassian_prompted, account_prompted, microsoft_prompted,
           microsoft_inspect_prompted>>

vars == <<pc, username, step, elapsed, current_url, new_url, flags, result,
          reported_url, ticks, last, since_change, long_run, atl_run_calls, verdict>>

(* ------------------- state of the other specifications ---------------- *)

VARIABLES
    probe_url,                  \* PageProbe: the url handed to is_on_ticket_page
    probe_ticket_id,            \* PageProbe: the ticket_id handed to it
    probe_hits,                 \* PageProbe: the values the calls returned so far
    probe_username,             \* dispatch: the username of the `if let Some(user)`
    classified,                 \* dispatch: per URL, what each call on it returned
    controller,                 \* a StepController shared by the threads
    thread,                     \* per thread: its position in pause and its call
    pause_calls,                \* the pause calls in the order of their fetch_add
    client,                     \* the JsmWebClient: browser, tab, count_nav
    config,                     \* auth.username and security_controls_impact
    cpos,                       \* position in complete_risk_assessment
    events,                     \* the browser operations of the call, in order
    client_result,              \* "none" | "Ok" | "Err"
    client_error,               \* the error complete_risk_assessment returned
    module,                     \* "client.rs" | "web.rs": the copy of JsmWebClient
    created,                    \* browsers launched and tabs opened so far
    tab,                        \* `let tab` of complete_risk_assessment (0: none)
    form_page,                  \* form operations: the page they are applied to
    form_value,                 \* form operations: the desired dropdown value
    form_calls,                 \* form operations: the calls made and what they did
    inj_page,                   \* injectors: the login page they are applied to
    inj_username,               \* injectors: the username handed to them
    inj_calls,                  \* injectors: the calls made and what they did
    sub_input,                  \* Submit: the TOML file, the JSON file and the -d items
    sub_pos,                    \* Submit: where the command is
    sub_fields,                 \* Submit: `fields`, the merged map
    sub_log,                    \* Submit: the HTTP requests made, in order
    sub_exit                    \* Submit: "none" | "Ok" | "Err" | "exit(1)"

probe_vars  == <<probe_url, probe_ticket_id, probe_hits>>
class_vars  == <<probe_username, classified>>
step_vars   == <<controller, thread, pause_calls>>
client_vars == <<client, config, cpos, events, client_result, client_error, module,
                 created, tab>>
form_vars   == <<form_page, form_value, form_calls>>
inj_vars    == <<inj_page, inj_username, inj_calls>>
sub_vars    == <<sub_input, sub_pos, sub_fields, sub_log, sub_exit>>

\* no error has been returned
NoError == [kind |-> "none", text |-> <<>>]

\* the variables wait_for_ticket_page does not touch
ProbeIdle  == probe_url = <<>> /\ probe_ticket_id = <<>> /\ probe_hits = {}
ClassIdle  == probe_username = NoUser /\ classified = <<>>
StepIdle   == controller = StepNew(FALSE, {}) /\ thread = <<>> /\ pause_calls = <<>>
ClientIdle ==
    /\ client = [browser |-> FALSE, tab |-> 0, count_nav |-> 0]
    /\ config = [username |-> <<>>, security_controls_impact |-> <<>>]
    /\ cpos = "idle"
    /\ events = <<>>
    /\ client_result = "none"
    /\ client_error = NoError
    /\ module = "client.rs"
    /\ created = [browsers |-> 0, tabs |-> 0]
    /\ tab = 0
FormIdle   == form_page = <<>> /\ form_value = <<>> /\ form_calls = <<>>
InjIdle    == inj_page = <<>> /\ inj_username = NoUser /\ inj_calls = <<>>
SubIdle    ==
    /\ sub_input = <<>> /\ sub_pos = "idle" /\ sub_fields = <<>>
    /\ sub_log = <<>> /\ sub_exit = "none"

SkipChoices == {{}, {2}}

NoTick == [injector |-> "none", outcome |-> "none", pauses |-> 0, slept |-> 0,
           exit |-> "none", pause_failed |-> FALSE]

\* The caller has built the StepController and is about to call
\* wait_for_ticket_page(tab, base_url, TicketId, TimeoutSecs, username, step).
Init ==
    /\ pc = "init"
    /\ username \in {login_username(c) : c \in ConfigUsernames}
    /\ step \in {StepNew(e, k) : e \in BOOLEAN, k \in SkipChoices}
    /\ elapsed = 0
    /\ current_url = <<>>
    /\ new_url = <<>>
    /\ atlassian_username_done = FALSE
    /\ account_continue_done = FALSE
    /\ microsoft_username_done = FALSE
    /\ atlassian_prompted = FALSE
    /\ account_prompted = FALSE
    /\ microsoft_prompted = FALSE
    /\ microsoft_inspect_prompted = FALSE
    /\ result = "none"
    /\ reported_url = <<>>
    /\ ticks = 0
    /\ last = NoTick
    /\ since_change = 0
    /\ long_run = FALSE
    /\ atl_run_calls = 0
    /\ verdict = [i \in Injectors |-> "none"]
    /\ ProbeIdle /\ ClassIdle /\ StepIdle /\ ClientIdle /\ FormIdle /\ InjIdle /\ SubIdle

\* Lines 22-33: start the timer, read the URL once, clear the flags.
Start ==
    /\ pc = "init"
    /\ pc' = "loop"
    /\ \E u \in Urls : current_url' = u /\ new_url' = u
    /\ elapsed' = 0
    /\ UNCHANGED <<username, step, flags, result, reported_url, ticks, last,
                   since_change, long_run, atl_run_calls, verdict>>
    /\ UNCHANGED <<probe_vars, class_vars, step_vars, client_vars, form_vars, inj_vars, sub_vars>>

\* `while start_time.elapsed() < timeout`
LoopRuns == pc = "loop" /\ elapsed < TimeoutSecs

\* `if new_url != current_url`
UrlChanged(u, cur) == u # cur

\* The observation variables after an iteration that read u, spent secs after
\* the read, and ran `injector` with `outcome`; failed: a pause call of the
\* iteration returned an error.
Observe(u, secs, injector, outcome, pauses, exit, failed) ==
    LET changed == u # new_url
        run     == IF changed THEN secs ELSE since_change + PollSecs + secs
    IN  /\ ticks' = ticks + 1
        /\ last' = [injector |-> injector, outcome |-> outcome, pauses |-> pauses,
                    slept |-> PollSecs, exit |-> exit, pause_failed |-> failed]
        /\ since_change' = run
        /\ long_run' = (long_run \/ since_change + PollSecs >= TimeoutSecs \/ run >= TimeoutSecs)
        /\ atl_run_calls' = (IF changed THEN 0 ELSE atl_run_calls)
                            + (IF injector = "atlassian" /\ outcome # "none" THEN 1 ELSE 0)
        /\ verdict' = IF outcome \in {"Ok(true)", "Err"}
                         THEN [verdict EXCEPT ![injector] = outcome]
                         ELSE verdict

\* Finish with a timer that stands still while a pause blocks
Finish_PauseStopsTimer(u, secs, exit) ==
    /\ new_url' = u
    /\ IF exit = "pause_err"
         THEN /\ pc' = "done"
              /\ result' = "Err"
              /\ elapsed' = elapsed + PollSecs
              /\ UNCHANGED current_url
         ELSE /\ pc' = "loop"
              /\ result' = result
              /\ IF exit = "fall" /\ UrlChanged(u, current_url)
                   THEN current_url' = u /\ elapsed' = 0
                   ELSE UNCHANGED current_url /\ elapsed' = elapsed + PollSecs
    /\ UNCHANGED <<username, reported_url>>

\* Lines 154-162, or what replaces them when the iteration ended earlier:
\* exit = "fall" runs the comparison; "continue" skips it; "pause_err" returns.
Finish(u, secs, exit) ==
    /\ new_url' = u
    /\ IF exit = "pause_err"
         THEN /\ pc' = "done"
              /\ result' = "Err"
              /\ elapsed' = elapsed + PollSecs + secs
              /\ UNCHANGED current_url
         ELSE /\ pc' = "loop"
              /\ result' = result
              /\ IF exit = "fall" /\ UrlChanged(u, current_url)
                   THEN current_url' = u /\ elapsed' = 0
                   ELSE UNCHANGED current_url /\ elapsed' = elapsed + PollSecs + secs
    /\ UNCHANGED <<username, reported_url>>

\* `atlassian_prompted = false; account_prompted = false; ...` of lines 158-161
ClearPrompts(exit, u, ap, cp, mp, ip) ==
    LET clear == exit = "fall" /\ UrlChanged(u, current_url)
    IN  /\ atlassian_prompted' = (IF clear THEN FALSE ELSE ap)
        /\ account_prompted' = (IF clear THEN FALSE ELSE cp)
        /\ microsoft_prompted' = (IF clear THEN FALSE ELSE mp)
        /\ microsoft_inspect_prompted' = (IF clear THEN FALSE ELSE ip)

(* ------------------------------- actions ------------------------------ *)

\* TicketArm that calls pause without asking step.enabled()
TicketArm_AlwaysPauses(s, p1) ==
    LET p == Pause(s, p1)
    IN  [step |-> p.step, secs |-> p.secs, pauses |-> 1,
         result |-> IF p.ok THEN "Ok(true)" ELSE "Err", failed |-> ~p.ok]

\* TicketArm without the inspection pause
TicketArm_NoPause(s, p1) ==
    [step |-> s, secs |-> 0, pauses |-> 0, result |-> "Ok(true)", failed |-> FALSE]

\* TicketArm that drops the error of the pause
TicketArm_SwallowsError(s, p1) ==
    IF s.enabled
      THEN LET p == Pause(s, p1)
           IN  [step |-> p.step, secs |-> p.secs, pauses |-> 1,
                result |-> "Ok(true)", failed |-> ~p.ok]
    ELSE [step |-> s, secs |-> 0, pauses |-> 0, result |-> "Ok(true)", failed |-> FALSE]

\* Lines 40-49: the ticket page was read; an enabled controller pauses once.
TicketArm(s, p1) ==
    IF s.enabled
      THEN LET p == Pause(s, p1)
           IN  [step |-> p.step, secs |-> p.secs, pauses |-> 1,
                result |-> IF p.ok THEN "Ok(true)" ELSE "Err", failed |-> ~p.ok]
    ELSE [step |-> s, secs |-> 0, pauses |-> 0, result |-> "Ok(true)", failed |-> FALSE]

\* One iteration that reads the ticket URL and returns.
PollTicketPage ==
    /\ LoopRuns /\ ticks < MaxTicks
    /\ \E u \in Urls, p1 \in PauseChoices(step) :
         /\ is_on_ticket_page(u, TicketId)
         /\ LET a == TicketArm(step, p1)
            IN  /\ pc' = "done"
                /\ result' = a.result
                /\ step' = a.step
                /\ new_url' = u
                /\ elapsed' = elapsed + PollSecs + a.secs
                /\ Observe(u, a.secs, "none", "none", a.pauses, "return", a.failed)
         /\ UNCHANGED <<username, current_url, flags, reported_url>>
    /\ UNCHANGED <<probe_vars, class_vars, step_vars, client_vars, form_vars, inj_vars, sub_vars>>

\* One iteration on the Atlassian login page (lines 52-83, then 154-162).
PollAtlassianLogin ==
    /\ LoopRuns /\ ticks < MaxTicks
    /\ \E u \in Urls, r \in ResultChoices(atlassian_username_done), p1 \in PauseChoices(step) :
       \E p2 \in AfterChoices(step, atlassian_username_done, r) :
         /\ ~is_on_ticket_page(u, TicketId)
         /\ Dispatch(u, username) = "atlassian"
         /\ LET a == InjectorArm(atlassian_username_done, atlassian_prompted, step, r, p1, p2)
            IN  /\ atlassian_username_done' = a.done
                /\ step' = a.step
                /\ ClearPrompts(a.exit, u, a.prompted, account_prompted,
                                microsoft_prompted, microsoft_inspect_prompted)
                /\ Finish(u, a.secs, a.exit)
                /\ Observe(u, a.secs, "atlassian", a.outcome, a.pauses, a.exit,
                           a.exit = "pause_err")
         /\ UNCHANGED <<account_continue_done, microsoft_username_done>>
    /\ UNCHANGED <<probe_vars, class_vars, step_vars, client_vars, form_vars, inj_vars, sub_vars>>

\* One iteration on the Atlassian account chooser (lines 84-115, then 154-162).
PollAccountChooser ==
    /\ LoopRuns /\ ticks < MaxTicks
    /\ \E u \in Urls, r \in ResultChoices(account_continue_done), p1 \in PauseChoices(step) :
       \E p2 \in AfterChoices(step, account_continue_done, r) :
         /\ ~is_on_ticket_page(u, TicketId)
         /\ Dispatch(u, username) = "account"
         /\ LET a == InjectorArm(account_continue_done, account_prompted, step, r, p1, p2)
            IN  /\ account_continue_done' = a.done
                /\ step' = a.step
                /\ ClearPrompts(a.exit, u, atlassian_prompted, a.prompted,
                                microsoft_prompted, microsoft_inspect_prompted)
                /\ Finish(u, a.secs, a.exit)
                /\ Observe(u, a.secs, "account", a.outcome, a.pauses, a.exit,
                           a.exit = "pause_err")
         /\ UNCHANGED <<atlassian_username_done, microsoft_username_done>>
    /\ UNCHANGED <<probe_vars, class_vars, step_vars, client_vars, form_vars, inj_vars, sub_vars>>

\* One iteration on a Microsoft login page (lines 116-151, then 154-162).
PollMicrosoft ==
    /\ LoopRuns /\ ticks < MaxTicks
    /\ \E u \in Urls, r \in ResultChoices(microsoft_username_done), p1 \in PauseChoices(step) :
       \E p2 \in AfterChoices(step, microsoft_username_done, r) :
         /\ ~is_on_ticket_page(u, TicketId)
         /\ Dispatch(u, username) = "microsoft"
         /\ IF ~microsoft_username_done
              THEN LET a == InjectorArm(microsoft_username_done, microsoft_prompted, step, r, p1, p2)
                   IN  /\ microsoft_username_done' = a.done
                       /\ step' = a.step
                       /\ ClearPrompts(a.exit, u, atlassian_prompted, account_prompted,
                                       a.prompted, microsoft_inspect_prompted)
                       /\ Finish(u, a.secs, a.exit)
                       /\ Observe(u, a.secs, "microsoft", a.outcome, a.pauses, a.exit,
                                  a.exit = "pause_err")
              ELSE LET b == InspectArm(microsoft_inspect_prompted, step, p1)
                   IN  /\ UNCHANGED microsoft_username_done
                       /\ step' = b.step
                       /\ ClearPrompts(b.exit, u, atlassian_prompted, account_prompted,
                                       microsoft_prompted, b.prompted)
                       /\ Finish(u, b.secs, b.exit)
                       /\ Observe(u, b.secs, "microsoft", "none", b.pauses, b.exit, b.exit = "pause_err")
         /\ UNCHANGED <<atlassian_username_done, account_continue_done>>
    /\ UNCHANGED <<probe_vars, class_vars, step_vars, client_vars, form_vars, inj_vars, sub_vars>>

\* One iteration on any other page, or with no username configured: only
\* the URL comparison of lines 154-162 runs.
PollOtherPage ==
    /\ LoopRuns /\ ticks < MaxTicks
    /\ \E u \in Urls :
         /\ ~is_on_ticket_page(u, TicketId)
         /\ Dispatch(u, username) = "none"
         /\ ClearPrompts("fall", u, atlassian_prompted, account_prompted,
                         microsoft_prompted, microsoft_inspect_prompted)
         /\ Finish(u, 0, "fall")
         /\ Observe(u, 0, "none", "none", 0, "fall", FALSE)
    /\ UNCHANGED <<step, atlassian_username_done, account_continue_done,
                   microsoft_username_done>>
    /\ UNCHANGED <<probe_vars, class_vars, step_vars, client_vars, form_vars, inj_vars, sub_vars>>

\* Lines 165-172: the loop condition failed; report current_url, pause once if
\* enabled, return Ok(false).
TimeoutExit ==
    /\ pc = "loop" /\ ~(elapsed < TimeoutSecs)
    /\ \E p1 \in PauseChoices(step) :
         LET p == IF step.enabled THEN Pause(step, p1) ELSE NoPause(step)
         IN  /\ step' = p.step
             /\ result' = (IF p.ok THEN "Ok(false)" ELSE "Err")
             /\ last' = [NoTick EXCEPT !.pauses = IF step.enabled THEN 1 ELSE 0,
                                       !.exit = "timeout", !.pause_failed = ~p.ok]
    /\ pc' = "done"
    /\ reported_url' = current_url
    /\ UNCHANGED <<username, elapsed, current_url, new_url, flags, ticks,
                   since_change, long_run, atl_run_calls, verdict>>
    /\ UNCHANGED <<probe_vars, class_vars, step_vars, client_vars, form_vars, inj_vars, sub_vars>>

Next ==
    \/ Start
    \/ PollTicketPage
    \/ PollAtlassianLogin
    \/ PollAccountChooser
    \/ PollMicrosoft
    \/ PollOtherPage
    \/ TimeoutExit

Spec == Init /\ [][Next]_vars

(* ------------------------------- claims ------------------------------- *)

TimedOut == pc = "done" /\ result = "Ok(false)"

\* a poll tick has read a URL that contains /browse/{ticket_id}
ReadTicketUrl == ticks > 0 /\ Contains(new_url, <<"/browse/">> \o TicketId)

\* C1: wait_for_ticket_page gives up only on a script in which some maximal run
\* of identical URLs lasted the timeout or longer; when every run is shorter
\* and the ticket URL is still to come it goes on to success, whatever the
\* injectors return.  Stated for a disabled StepController, so that no time
\* passes in a pause.
C1_InactivityReset == (TimedOut /\ ~step.enabled) => long_run

\* C2: wait_for_ticket_page returns failure only when at least timeout_secs have
\* elapsed since the most recent poll tick whose URL differed from the URL of
\* the tick before it.  Stated for a disabled StepController, so that no time
\* passes in a pause.
C2_TimeoutSinceLastChange == (TimedOut /\ ~step.enabled) => since_change >= TimeoutSecs

\* C2, second half: the timer is reset on every tick whose URL differs from the
\* URL of the tick before, ticks that invoked an injector included.
C2_ResetOnEveryChange ==
    [][(pc = "loop" /\ pc' = "loop" /\ ticks' = ticks + 1 /\ new_url' # new_url)
          => elapsed' = 0]_vars

\* C3 as claimed: a poll tick that reads the ticket URL returns success on that
\* tick, invokes no injector, and pauses exactly once if the StepController is
\* enabled and not at all if it is disabled.
C3_TicketTickSucceeds ==
    ReadTicketUrl =>
        /\ pc = "done" /\ result = "Ok(true)"
        /\ last.outcome = "none"
        /\ last.pauses = (IF step.enabled THEN 1 ELSE 0)

\* C3 as amended: the tick that reads the ticket URL ends the call without
\* invoking an injector, after exactly one pause if enabled and none if disabled;
\* the result is success, or the pause's error when the enabled, unskipped
\* inspection pause fails.
C3_TicketTickReturns ==
    ReadTicketUrl =>
        /\ pc = "done" /\ last.exit = "return"
        /\ last.injector = "none" /\ last.outcome = "none"
        /\ last.pauses = (IF step.enabled THEN 1 ELSE 0)
        /\ result \in {"Ok(true)", "Err"}
        /\ result = "Err" => (step.enabled /\ step.counter \notin step.skip_steps)

\* an enabled controller paused once on the ticket page and the call succeeded
C3_Witness ==
    /\ ReadTicketUrl /\ step.enabled /\ last.pauses = 1 /\ result = "Ok(true)"
    /\ username = User /\ ticks > 1

\* C4: when the call ends without a tick having read the ticket URL, it returns
\* the failure value Ok(false), never an error, and the URL it reports is the
\* last URL read.  Stated for a disabled StepController, where no pause is
\* issued that could fail.
C4_TimeoutReportsLastUrl ==
    (pc = "done" /\ ~ReadTicketUrl /\ ~step.enabled) =>
        /\ result = "Ok(false)"
        /\ reported_url = new_url

\* the done flag of an injector
DoneFlag(i) ==
    CASE i = "atlassian" -> atlassian_username_done
      [] i = "account"   -> account_continue_done
      [] i = "microsoft" -> microsoft_username_done
      [] OTHER           -> FALSE

\* this step is a poll tick that called injector i
Invokes(i) == ticks' = ticks + 1 /\ last'.injector = i /\ last'.outcome # "none"

C6_ChangeClearsDone ==
    [][(pc = "loop" /\ pc' = "loop" /\ ticks' = ticks + 1 /\ new_url' # new_url
          /\ last'.outcome = "none" /\ last'.pauses = 0)
        => /\ ~atlassian_username_done' /\ ~account_continue_done' /\ ~microsoft_username_done'
           /\ ~atlassian_prompted' /\ ~account_prompted' /\ ~microsoft_prompted'
           /\ ~microsoft_inspect_prompted']_vars

\* C6, consequence: an injector that already returned Ok(true) or Err is called
\* again when a later read of a different URL falls in its class.
C6_RetryAfterChange ==
    [][(pc = "loop" /\ ticks' = ticks + 1 /\ new_url' # new_url
          /\ last'.injector \in Injectors /\ last'.exit # "pause_err")
        => last'.outcome # "none"]_vars

\* C7: after an injector returned Ok(true) the next URL read follows without a
\* poll-period sleep.
C7_NoSleepAfterInjection ==
    [][(pc = "loop" /\ last.outcome = "Ok(true)" /\ ticks' = ticks + 1)
        => last'.slept = 0]_vars

\* the next read is a poll tick whose URL falls in the class of the injector
\* the latest tick called
SameClassTick ==
    /\ pc = "loop" /\ ticks' = ticks + 1
    /\ ~Contains(new_url', <<"/browse/">> \o TicketId)
    /\ Dispatch(new_url', username) = last.injector

C9_ErrDoesNotAbort ==
    /\ [](last.outcome = "Err" => (DoneFlag(last.injector) /\ pc = "loop"))
    /\ [][\A i \in Injectors : Invokes(i) => verdict[i] # "Err"]_vars

\* C9 as amended: as claimed, except that with step-through enabled the pause
\* issued after the error can fail, and then the call returns the pause's error.
C9_ErrDoesNotAbortUnlessPauseFails ==
    /\ [](last.outcome = "Err" =>
            /\ DoneFlag(last.injector)
            /\ \/ pc = "loop"
               \/ (step.enabled /\ last.exit = "pause_err" /\ result = "Err"))
    /\ [][\A i \in Injectors : Invokes(i) => verdict[i] # "Err"]_vars

\* the call succeeded after an injector had returned Err
C9_Witness ==
    /\ pc = "done" /\ result = "Ok(true)" /\ ReadTicketUrl
    /\ \E i \in Injectors : verdict[i] = "Err" /\ DoneFlag(i)

\* the Microsoft MFA re-processing redirect
IsMfaReprocess(url) == StartsWith(url, MicrosoftHost) /\ Contains(url, <<"reprocess">>)

\* C10: time spent on an unchanged MFA re-processing URL does not count toward
\* the inactivity timeout: the call never fails after a whole timeout window
\* on that one URL.  Stated for a disabled StepController, so that the window
\* is made of poll sleeps only.
C10_MfaWaitNeverTimesOut ==
    (TimedOut /\ ~step.enabled) =>
        ~(/\ IsMfaReprocess(new_url) /\ new_url = current_url
          /\ since_change >= TimeoutSecs)

(* ====================================================================== *)
(*          Provider dispatch as a function of the URL (PageProbe)        *)
(* ====================================================================== *)

\* calls of the dispatch chain made on one URL
MaxRepeat == 2

\* wait_for_ticket_page is not running
LoginIdle ==
    /\ pc = "idle"
    /\ username = NoUser
    /\ step = StepNew(FALSE, {})
    /\ elapsed = 0
    /\ current_url = <<>>
    /\ new_url = <<>>
    /\ atlassian_username_done = FALSE
    /\ account_continue_done = FALSE
    /\ microsoft_username_done = FALSE
    /\ atlassian_prompted = FALSE
    /\ account_prompted = FALSE
    /\ microsoft_prompted = FALSE
    /\ microsoft_inspect_prompted = FALSE
    /\ result = "none"
    /\ reported_url = <<>>
    /\ ticks = 0
    /\ last = NoTick
    /\ since_change = 0
    /\ long_run = FALSE
    /\ atl_run_calls = 0
    /\ verdict = [i \in Injectors |-> "none"]

\* the sample table: Atlassian login, Atlassian account chooser, Microsoft
\* username, Microsoft MFA reprocess, an unrelated URL
SampleUrls == {UrlAtlLogin, UrlAtlJoin, UrlMsLogin, UrlMsReprocess, UrlSiteLogin}

ClassifyInit ==
    /\ probe_username \in {NoUser, User}
    /\ classified = [u \in Urls |-> <<>>]
    /\ LoginIdle /\ ProbeIdle /\ StepIdle /\ ClientIdle /\ FormIdle /\ InjIdle /\ SubIdle

\* One evaluation of the chain `if let Some(user) = username { if .. else if ..
\* else if .. }` of lines 51-151 on a URL; the value is the arm it enters.
CallDispatch ==
    /\ \E u \in Urls :
         /\ Len(classified[u]) < MaxRepeat
         /\ classified' = [classified EXCEPT ![u] = Append(@, Dispatch(u, probe_username))]
    /\ UNCHANGED <<probe_username, probe_vars, step_vars, client_vars, form_vars, inj_vars, sub_vars, vars>>

ClassifyNext == CallDispatch

ClassifySpec == ClassifyInit /\ [][ClassifyNext]_<<class_vars>>

\* C11: with a username configured, the sample URLs are told apart by the
\* dispatch (no two of them enter the same arm), and every call on the same URL
\* enters the same arm.
C11_SamplesClassifiedApart ==
    probe_username = User =>
        /\ \A u1, u2 \in SampleUrls :
             (u1 # u2 /\ classified[u1] # <<>> /\ classified[u2] # <<>>)
                => classified[u1][1] # classified[u2][1]
        /\ \A u \in SampleUrls : \A i, j \in 1..Len(classified[u]) :
             classified[u][i] = classified[u][j]

(* ====================================================================== *)
(*                     is_on_ticket_page (PageProbe)                      *)
(* ====================================================================== *)

\* fragments in a URL handed to is_on_ticket_page
MaxUrlLen == 4
\* fragments in a ticket id handed to it
MaxIdLen == 2

\* The texts URLs and ticket ids are made of.  No text occurs inside another
\* and none can straddle two others, so a substring of the concatenated text
\* is a subsequence of fragments and the other way round.
IdFragments == {"ITH-", "1", "2"}
UrlFragments == {"https://acme.atlassian.net", "/browse/"} \cup IdFragments

RECURSIVE SeqsUpTo(_, _)
SeqsUpTo(S, n) ==
    IF n = 0 THEN {<<>>}
    ELSE LET shorter == SeqsUpTo(S, n - 1)
         IN  shorter \cup {Append(q, x) : q \in {r \in shorter : Len(r) = n - 1}, x \in S}

ProbeUrls == SeqsUpTo(UrlFragments, MaxUrlLen)
ProbeIds == SeqsUpTo(IdFragments, MaxIdLen)

\* web.rs: fn is_on_ticket_page(url, _base_url, ticket_id), the older copy
web_is_on_ticket_page(url, base_url, ticket_id) ==
    Contains(url, <<"/browse/">> \o ticket_id)

ProbeInit ==
    /\ probe_url \in ProbeUrls
    /\ probe_ticket_id \in ProbeIds
    /\ probe_hits = {}
    /\ LoginIdle /\ ClassIdle /\ StepIdle /\ ClientIdle /\ FormIdle /\ InjIdle /\ SubIdle

\* login.rs: is_on_ticket_page(&new_url, ticket_id)
CallIsOnTicketPage ==
    /\ probe_hits' = probe_hits \cup {is_on_ticket_page(probe_url, probe_ticket_id)}
    /\ UNCHANGED <<probe_url, probe_ticket_id, class_vars, step_vars, client_vars,
                   form_vars, inj_vars, sub_vars, vars>>

\* web.rs: is_on_ticket_page(&new_url, base_url, ticket_id)
CallWebIsOnTicketPage ==
    /\ probe_hits' = probe_hits
          \cup {web_is_on_ticket_page(probe_url, <<"https://acme.atlassian.net">>, probe_ticket_id)}
    /\ UNCHANGED <<probe_url, probe_ticket_id, class_vars, step_vars, client_vars,
                   form_vars, inj_vars, sub_vars, vars>>

ProbeNext ==
    \/ CallIsOnTicketPage
    \/ CallWebIsOnTicketPage

ProbeSpec == ProbeInit /\ [][ProbeNext]_<<probe_vars>>

\* "/browse/" occurs in url with the fragments of id right behind it
BrowseIdAt(url, id, i) ==
    /\ url[i] = "/browse/"
    /\ i + Len(id) <= Len(url)
    /\ \A j \in 1..Len(id) : url[i + j] = id[j]

\* C12: every call of is_on_ticket_page(url, ticket_id), in login.rs and in web.rs,
\* returns true when "/browse/" immediately followed by ticket_id occurs somewhere
\* in url and false when it occurs nowhere.
C12_TrueIffBrowseIdOccurs ==
    probe_hits \subseteq
        {\E i \in 1..Len(probe_url) : BrowseIdAt(probe_url, probe_ticket_id, i)}

\* the call returned true on a URL that has the ticket path behind a host
C12_Witness ==
    /\ probe_hits = {TRUE}
    /\ probe_ticket_id = TicketId
    /\ probe_url = <<"https://acme.atlassian.net", "/browse/">> \o TicketId

\* the ticket id the /browse/ path of url names: the id fragments that follow
\* the first "/browse/"
NamedTicket(url) ==
    LET i == CHOOSE k \in 1..Len(url) :
                 url[k] = "/browse/" /\ \A m \in 1..(k - 1) : url[m] # "/browse/"
        j == CHOOSE k \in i..Len(url) :
                 /\ \A m \in (i + 1)..k : url[m] \in IdFragments
                 /\ (k = Len(url) \/ url[k + 1] \notin IdFragments)
    IN  SubSeq(url, i + 1, j)

\* url has exactly one /browse/ path
OneBrowsePath(url) == Cardinality({k \in 1..Len(url) : url[k] = "/browse/"}) = 1

\* C13: is_on_ticket_page(url, id) returns false when url lacks id, and when the
\* one /browse/ path of url names a ticket id other than id.
C13_FalseForOtherTicket ==
    (probe_hits # {} /\ probe_ticket_id # <<>>
        /\ (\/ ~Contains(probe_url, probe_ticket_id)
            \/ (OneBrowsePath(probe_url) /\ NamedTicket(probe_url) # probe_ticket_id)))
    => probe_hits = {FALSE}

(* ====================================================================== *)
(*                     wait_for_ticket_page, continued                    *)
(* ====================================================================== *)

\* C14 as claimed, its last part: with no username, a call that read the ticket
\* URL has returned success.
C14_NoUserTicketSucceeds ==
    (username = NoUser /\ ReadTicketUrl) => (pc = "done" /\ result = "Ok(true)")

\* C14 as amended: a configured username that is empty or blank after trimming,
\* and no other, is handed on as None; with None no injector is ever called and
\* no done flag is set, the call fails only with the error of a pause of an
\* enabled StepController, and a tick that reads the ticket URL returns success
\* unless its inspection pause fails.
C14_NoUserOnlyPolls ==
    /\ \A c \in ConfigUsernames :
         (\A i \in 1..Len(c) : c[i] \in Blanks) <=> (login_username(c) = NoUser)
    /\ username = NoUser =>
         /\ last.injector = "none" /\ last.outcome = "none"
         /\ \A i \in Injectors : verdict[i] = "none" /\ ~DoneFlag(i)
         /\ result = "Err" => (step.enabled /\ last.pauses = 1)
         /\ ReadTicketUrl =>
              /\ pc = "done"
              /\ result = "Ok(true)" \/ (step.enabled /\ result = "Err")

\* with no username the loop sat on the Atlassian login page, then read the
\* ticket URL and returned success
C14_Witness ==
    /\ username = NoUser
    /\ current_url = UrlAtlLogin /\ new_url = UrlTicket
    /\ ticks >= 2
    /\ pc = "done" /\ result = "Ok(true)"

(* ====================================================================== *)
(*              StepController::pause, called from several threads        *)
(* ====================================================================== *)

\* threads that share one StepController
NumThreads == 2
\* pause calls made on the controller
MaxCalls == 3

Threads == 1..NumThreads

\* the description argument of pause
Descriptions == {"inspect ticket page", "submit username"}

\* fetch_add that loses the update
fetch_add_Lost(s) == [previous |-> s.counter, controller |-> s]

\* fetch_add that counts only on an enabled controller
fetch_add_WhenEnabled(s) ==
    [previous |-> s.counter,
     controller |-> IF s.enabled THEN [s EXCEPT !.counter = @ + 1] ELSE s]

\* self.counter.fetch_add(1, Ordering::SeqCst): one atomic read-modify-write
fetch_add(s) == [previous |-> s.counter, controller |-> [s EXCEPT !.counter = @ + 1]]

\* the early return that is never taken
ReturnsAtOnce_Never(s) == FALSE

\* `if !self.enabled { return Ok(()) }`
ReturnsAtOnce(s) == ~s.enabled

\* the skip test that ignores the skip set
IsSkipped_Never(s, step_number) == FALSE

\* `self.skip_steps.contains(&step_number)`
IsSkipped(s, step_number) == step_number \in s.skip_steps

ThreadIdle == [pc |-> "idle", call |-> 0]

StepInit ==
    /\ controller \in {StepNew(e, k) : e \in BOOLEAN, k \in SUBSET (1..MaxCalls)}
    /\ thread = [t \in Threads |-> ThreadIdle]
    /\ pause_calls = <<>>
    /\ LoginIdle /\ ProbeIdle /\ ClassIdle /\ ClientIdle /\ FormIdle /\ InjIdle /\ SubIdle

\* pause touches nothing but the controller, the caller and the operator stream
StepFrame == UNCHANGED <<probe_vars, class_vars, client_vars, form_vars, inj_vars, sub_vars, vars>>

\* the record of the call thread t is in, with its outcome filled in
Returned(t, notice, blocked, res) ==
    /\ pause_calls' = [pause_calls EXCEPT ![thread[t].call] =
                          [@ EXCEPT !.notice = notice, !.blocked = blocked, !.result = res]]
    /\ thread' = [thread EXCEPT ![t] = ThreadIdle]
    /\ UNCHANGED controller
    /\ StepFrame

\* Line 27: thread t enters pause and takes its step number.
PauseEnter(t) ==
    /\ thread[t].pc = "idle"
    /\ Len(pause_calls) < MaxCalls
    /\ \E d \in Descriptions :
         LET f == fetch_add(controller)
         IN  /\ controller' = f.controller
             /\ pause_calls' = Append(pause_calls,
                    [thread |-> t, step_number |-> f.previous + 1, description |-> d,
                     notice |-> "none", blocked |-> FALSE, result |-> "pending"])
    /\ thread' = [thread EXCEPT ![t] = [pc |-> "numbered", call |-> Len(pause_calls) + 1]]
    /\ StepFrame

\* Lines 28-30: a disabled controller returns Ok with no output.
PauseDisabled(t) ==
    /\ thread[t].pc = "numbered"
    /\ ReturnsAtOnce(controller)
    /\ Returned(t, "none", FALSE, "Ok")

\* Lines 32-36: a skipped step prints the skip notice and returns Ok.
PauseSkipped(t) ==
    /\ thread[t].pc = "numbered"
    /\ ~ReturnsAtOnce(controller)
    /\ IsSkipped(controller, pause_calls[thread[t].call].step_number)
    /\ Returned(t, "skipped", FALSE, "Ok")

\* Lines 38-43: the step banner and the prompt are printed and stdout is
\* flushed; a failed flush returns the error, otherwise read_line is entered.
PausePrompt(t) ==
    /\ thread[t].pc = "numbered"
    /\ ~ReturnsAtOnce(controller)
    /\ ~IsSkipped(controller, pause_calls[thread[t].call].step_number)
    /\ \E flushed \in BOOLEAN :
         IF flushed
           THEN /\ pause_calls' = [pause_calls EXCEPT ![thread[t].call] =
                                      [@ EXCEPT !.notice = "prompt", !.blocked = TRUE]]
                /\ thread' = [thread EXCEPT ![t].pc = "reading"]
                /\ UNCHANGED controller
                /\ StepFrame
         ELSE Returned(t, "prompt", FALSE, "Err")

\* Lines 44-48: read_line returns a line (or end of input): Ok.
PauseAcknowledged(t) ==
    /\ thread[t].pc = "reading"
    /\ Returned(t, "prompt", TRUE, "Ok")

\* Lines 45-47: read_line fails: the error is returned.
PauseReadFails(t) ==
    /\ thread[t].pc = "reading"
    /\ Returned(t, "prompt", TRUE, "Err")

StepNext ==
    \E t \in Threads :
        \/ PauseEnter(t)
        \/ PauseDisabled(t)
        \/ PauseSkipped(t)
        \/ PausePrompt(t)
        \/ PauseAcknowledged(t)
        \/ PauseReadFails(t)

StepSpec == StepInit /\ [][StepNext]_<<step_vars>>

\* the pause calls that have returned
ReturnedCalls == {k \in 1..Len(pause_calls) : pause_calls[k].result # "pending"}

\* C15: the k-th pause call on a controller gets step number k and the counter
\* equals the number of calls made so far, on an enabled and on a disabled
\* controller alike.
C15_NumbersInCallOrder ==
    /\ controller.counter = Len(pause_calls)
    /\ \A k \in 1..Len(pause_calls) : pause_calls[k].step_number = k

\* three calls have returned on a disabled controller
C15_Witness ==
    /\ ~controller.enabled
    /\ Len(pause_calls) = 3
    /\ ReturnedCalls = 1..3
    /\ controller.counter = 3

\* C16: on a disabled controller no pause call writes to the operator stream or
\* enters the blocking read, and each returns Ok as the next step of its thread,
\* whatever the description and the skip set.
C16_DisabledReturnsAtOnce ==
    ~controller.enabled =>
        /\ \A t \in Threads : thread[t].pc # "reading"
        /\ \A k \in 1..Len(pause_calls) :
             /\ pause_calls[k].notice = "none"
             /\ ~pause_calls[k].blocked
             /\ pause_calls[k].result \in {"pending", "Ok"}
             /\ pause_calls[k].result = "pending"
                  => /\ thread[pause_calls[k].thread] = [pc |-> "numbered", call |-> k]
                     /\ ENABLED PauseDisabled(pause_calls[k].thread)

\* a disabled controller whose skip set names step 2 returned Ok from two calls
\* with different descriptions
C16_Witness ==
    /\ ~controller.enabled
    /\ 2 \in controller.skip_steps
    /\ {1, 2} \subseteq ReturnedCalls
    /\ pause_calls[1].description # pause_calls[2].description
    /\ pause_calls[1].result = "Ok" /\ pause_calls[2].result = "Ok"

\* C17 as claimed: on an enabled controller a call that has returned entered the
\* blocking read exactly when its number is not in skip_steps.
C17_BlocksIffNotSkipped ==
    controller.enabled =>
        \A k \in ReturnedCalls : pause_calls[k].blocked <=> k \notin controller.skip_steps

\* C17 as amended: on an enabled controller a call whose number is in skip_steps
\* prints the skip notice and returns Ok without entering the blocking read,
\* keeping its number; a call whose number is not in skip_steps prints the
\* prompt and then either enters the blocking read or, when flushing the prompt
\* fails, returns that error without blocking.
C17_BlocksUnlessSkippedOrFlushFails ==
    controller.enabled =>
        \A k \in ReturnedCalls :
            /\ pause_calls[k].step_number = k
            /\ k \in controller.skip_steps =>
                 /\ pause_calls[k].notice = "skipped"
                 /\ ~pause_calls[k].blocked
                 /\ pause_calls[k].result = "Ok"
            /\ k \notin controller.skip_steps =>
                 /\ pause_calls[k].notice = "prompt"
                 /\ pause_calls[k].blocked \/ pause_calls[k].result = "Err"

\* skip_steps = {2}: three calls returned Ok, the first and the third after
\* blocking, the second without
C17_Witness ==
    /\ controller.enabled /\ controller.skip_steps = {2}
    /\ ReturnedCalls = 1..3
    /\ pause_calls[1].blocked /\ ~pause_calls[2].blocked /\ pause_calls[3].blocked
    /\ \A k \in 1..3 : pause_calls[k].result = "Ok"

\* C18: in every interleaving of the threads no two pause calls hold the same
\* step number, and the numbers handed out to N calls are exactly 1..N.
C18_NumbersDistinct ==
    /\ \A i, j \in 1..Len(pause_calls) :
         i # j => pause_calls[i].step_number # pause_calls[j].step_number
    /\ {pause_calls[k].step_number : k \in 1..Len(pause_calls)} = 1..Len(pause_calls)

\* two threads are inside pause at the same time, both blocked in the read
C18_Witness ==
    /\ thread[1].pc = "reading" /\ thread[2].pc = "reading"
    /\ pause_calls[thread[1].call].step_number # pause_calls[thread[2].call].step_number

(* ====================================================================== *)
(*              a failed pause inside wait_for_ticket_page                *)
(* ====================================================================== *)

\* read_line returned an error
ReadFails == [ok |-> FALSE, secs |-> 0]

\* C19: a pause call on an enabled controller whose number is not skipped
\* returns an error when reading the acknowledgment fails; and when a pause
\* call made by wait_for_ticket_page has returned an error, the call has ended
\* with that error (not with true or false), the controller being enabled and
\* the failed step not a skipped one.
C19_PauseErrorEndsLogin ==
    /\ (step.enabled /\ step.counter + 1 \notin step.skip_steps)
          => ~Pause(step, ReadFails).ok
    /\ last.pause_failed =>
          /\ pc = "done" /\ result = "Err"
          /\ step.enabled /\ step.counter \notin step.skip_steps

\* the inspection pause of the ticket arm failed and the call returned Err
C19_Witness ==
    /\ ReadTicketUrl /\ last.exit = "return"
    /\ last.pause_failed
    /\ pc = "done" /\ result = "Err"

(* ====================================================================== *)
(*            JsmWebClient::complete_risk_assessment (client.rs)          *)
(* ====================================================================== *)

\* navigations one client makes (count_nav)
MaxRuns == 2

\* the timeout complete_risk_assessment hands to wait_for_ticket_page
LoginTimeoutSecs == 45

\* change_impact_assessment.security_controls_impact: None, or Some(value)
ImpactChoices == {<<>>, <<"Low">>, <<"">>}

\* what one script evaluation that clicks a button can come to
ClickOutcomes == {"Ok(true)", "Ok(false)", "Err"}

\* the status of the script that opens the dropdown, or a failed evaluation
OpenStatuses == {"clicked", "field-not-found", "clickable-not-found", "", "Err"}

\* the status of the script that picks the option, or a failed evaluation
SelectStatuses == {"selected", "option-not-found", "", "Err"}

\* the two copies of JsmWebClient in the sources
Modules == {"client.rs", "web.rs"}

ClientInit ==
    /\ client = [browser |-> FALSE, tab |-> 0, count_nav |-> 0]
    /\ config \in [username : ConfigUsernames, security_controls_impact : ImpactChoices]
    /\ module \in Modules
    /\ cpos = "idle"
    /\ events = <<>>
    /\ client_result = "none"
    /\ client_error = NoError
    /\ created = [browsers |-> 0, tabs |-> 0]
    /\ tab = 0
    /\ LoginIdle /\ ProbeIdle /\ ClassIdle /\ StepIdle /\ FormIdle /\ InjIdle /\ SubIdle

\* the browser automation touches nothing but the client
ClientFrame ==
    UNCHANGED <<config, module, probe_vars, class_vars, step_vars, form_vars, inj_vars, sub_vars, vars>>

\* operation `op` on tab `t` (0: no tab) came to `res`
Event(op, res, arg, t) == [op |-> op, res |-> res, arg |-> arg, tab |-> t]

\* the operation ended with Ok and the function goes on at `next`
Proceed(ev, next) ==
    /\ events' = Append(events, ev)
    /\ cpos' = next
    /\ UNCHANGED <<client_result, client_error>>

\* the operation's error leaves the function through `?`
Fail(ev) ==
    /\ events' = Append(events, ev)
    /\ cpos' = "idle"
    /\ client_result' = "Err"
    /\ client_error' = [kind |-> ev.op, text |-> <<>>]

\* the step leaves the browser handles as they are
KeepHandles == UNCHANGED <<client, created, tab>>

\* one more call is explored (client.rs counts its navigations itself)
MoreRuns ==
    IF module = "client.rs" THEN client.count_nav < MaxRuns ELSE created.tabs < MaxRuns

\* The caller invokes complete_risk_assessment(ticket_id, config) on the client.
CallCompleteRiskAssessment ==
    /\ cpos = "idle"
    /\ MoreRuns
    /\ cpos' = "get_tab"
    /\ events' = <<>>
    /\ client_result' = "none"
    /\ client_error' = NoError
    /\ tab' = 0
    /\ UNCHANGED <<client, created>>
    /\ ClientFrame

\* get_tab.  client.rs (lines 31-52): the stored tab, or else a browser (launched
\* if there is none) and a new tab of it, which is stored.  web.rs (lines 41-60):
\* a browser (launched if there is none) and a new tab of it on every call.
\* Launching and new_tab can fail.
GetTab ==
    /\ cpos = "get_tab"
    /\ IF module = "client.rs" /\ client.tab # 0
         THEN /\ Proceed(Event("get_tab", "Ok", <<>>, client.tab), "navigate")
              /\ tab' = client.tab
              /\ UNCHANGED <<client, created>>
       ELSE \E launched \in BOOLEAN, opened \in BOOLEAN :
              LET launches == IF client.browser THEN 0 ELSE 1
                  id       == created.tabs + 1
              IN
              /\ ~launched => ~client.browser
              /\ IF ~launched
                   THEN /\ Fail(Event("get_tab", "Err", <<>>, 0))
                        /\ UNCHANGED <<client, created, tab>>
                 ELSE IF ~opened
                   THEN /\ Fail(Event("get_tab", "Err", <<>>, 0))
                        /\ client' = [client EXCEPT !.browser = TRUE]
                        /\ created' = [created EXCEPT !.browsers = @ + launches]
                        /\ UNCHANGED tab
                 ELSE /\ Proceed(Event("get_tab", "Ok", <<>>, id), "navigate")
                      /\ client' = [client EXCEPT !.browser = TRUE,
                                                  !.tab = IF module = "client.rs" THEN id ELSE @]
                      /\ created' = [browsers |-> created.browsers + launches, tabs |-> id]
                      /\ tab' = id
    /\ ClientFrame

\* client.rs 68-71: count_nav += 1, then tab.navigate_to(&ticket_url)?
\* (web.rs 67-68 keeps no count)
NavigateTo ==
    /\ cpos = "navigate"
    /\ client' = [client EXCEPT !.count_nav = IF module = "client.rs" THEN @ + 1 ELSE @]
    /\ \E ok \in BOOLEAN :
         IF ok THEN Proceed(Event("navigate_to", "Ok", <<>>, tab), "wait_navigated")
         ELSE Fail(Event("navigate_to", "Err", <<>>, tab))
    /\ UNCHANGED <<created, tab>>
    /\ ClientFrame

\* Line 72: tab.wait_until_navigated()?
WaitUntilNavigated ==
    /\ cpos = "wait_navigated"
    /\ \E ok \in BOOLEAN :
         IF ok THEN Proceed(Event("wait_until_navigated", "Ok", <<>>, tab), "login")
         ELSE Fail(Event("wait_until_navigated", "Err", <<>>, tab))
    /\ KeepHandles
    /\ ClientFrame

\* AfterLogin that goes on to the form whatever the login driver returned
AfterLogin_AlwaysProceeds(r) == IF r = "Err" THEN "idle" ELSE "open_editor"

\* `login::wait_for_ticket_page(..)?` and `if is_on_correct_page { .. } else { .. }`
AfterLogin(r) ==
    CASE r = "Ok(true)"  -> "open_editor"
      [] r = "Ok(false)" -> "report"
      [] OTHER           -> "idle"

\* Lines 74-90: the username is trimmed and wait_for_ticket_page is called with a
\* timeout of 45 s; its result is what that function can return.
LoginWait ==
    /\ cpos = "login"
    /\ \E r \in {"Ok(true)", "Ok(false)", "Err"} :
         LET ev == Event("wait_for_ticket_page", r,
                         <<login_username(config.username), LoginTimeoutSecs>>, tab)
         IN  IF AfterLogin(r) = "idle" THEN Fail(ev) ELSE Proceed(ev, AfterLogin(r))
    /\ KeepHandles
    /\ ClientFrame

\* the tab the form operations act on: client.rs takes it from self.tab()
\* (lines 54-58), web.rs is handed the caller's `tab`
FormTab == IF module = "client.rs" THEN client.tab ELSE tab

\* what the click script of a form operation can come to; without a stored tab
\* self.tab() is an error
FormClickOutcomes == IF FormTab = 0 THEN {"Err"} ELSE ClickOutcomes

\* open_risk_assessment_editor (lines 157-170): Ok when the click script clicked
\* a button, Err when it found none or could not be evaluated.
open_risk_assessment_editor(clicked) == IF clicked = "Ok(true)" THEN "Ok" ELSE "Err"

\* save_risk_assessment_changes (lines 268-279)
save_risk_assessment_changes(clicked) == IF clicked = "Ok(true)" THEN "Ok" ELSE "Err"

\* select_dropdown_option (lines 172-266): Err unless the first script reports
\* "clicked"; then Err unless the second reports "selected".
select_dropdown_option(open_status, select_status) ==
    IF open_status # "clicked" THEN "Err"
    ELSE IF select_status # "selected" THEN "Err"
    ELSE "Ok"

\* the test of line 97 that skips the dropdown although a value is configured
AfterEditor_NeverDropdown(cfg) == "save"

\* Line 97: `if let Some(value) = &config..security_controls_impact`
AfterEditor(cfg) == IF cfg.security_controls_impact # <<>> THEN "dropdown" ELSE "save"

\* Line 95: self.open_risk_assessment_editor()?, then the test of line 97
OpenEditor ==
    /\ cpos = "open_editor"
    /\ \E c \in FormClickOutcomes :
         LET res == open_risk_assessment_editor(c)
             ev  == Event("open_risk_assessment_editor", res, <<>>, FormTab)
         IN  IF res = "Ok" THEN Proceed(ev, AfterEditor(config)) ELSE Fail(ev)
    /\ KeepHandles
    /\ ClientFrame

\* SelectDropdown's continuation that goes on to save after a failed dropdown
AfterDropdown_IgnoresError(res) == "save"

\* `self.select_dropdown_option(..)?` (lines 99-106)
AfterDropdown(res) == IF res = "Ok" THEN "save" ELSE "idle"

\* Lines 97-106: self.select_dropdown_option(&[..], value)? for Some(value); the
\* option script skips options without text (line 230), so that it selects none
\* for an empty value
SelectDropdown ==
    /\ cpos = "dropdown"
    /\ \E o \in (IF FormTab = 0 THEN {"Err"} ELSE OpenStatuses),
          p \in (IF config.security_controls_impact = <<"">>
                   THEN SelectStatuses \ {"selected"} ELSE SelectStatuses) :
         LET res == select_dropdown_option(o, p)
             ev  == Event("select_dropdown_option", res, config.security_controls_impact,
                          FormTab)
         IN  IF AfterDropdown(res) = "idle" THEN Fail(ev) ELSE Proceed(ev, AfterDropdown(res))
    /\ KeepHandles
    /\ ClientFrame

\* Lines 113-115: self.save_risk_assessment_changes()?; Ok(())
Save ==
    /\ cpos = "save"
    /\ \E c \in FormClickOutcomes :
         LET res == save_risk_assessment_changes(c)
             ev  == Event("save_risk_assessment_changes", res, <<>>, FormTab)
         IN  IF res = "Ok"
               THEN /\ events' = Append(events, ev)
                    /\ cpos' = "idle"
                    /\ client_result' = "Ok"
                    /\ UNCHANGED client_error
             ELSE Fail(ev)
    /\ KeepHandles
    /\ ClientFrame

\* the error text without the URL the browser was on
wrong_page_error_NoUrl(ticket_id, cur) ==
    <<"Could not verify we're on the correct ticket page for ">> \o ticket_id
       \o <<".\nCurrent URL: ", "\nThis may be due to a login page or other redirect.",
            "\nPlease try again after ensuring you're logged in.">>

\* Lines 118-123: the text of the error, with ticket_id and the current URL put in
wrong_page_error(ticket_id, cur) ==
    <<"Could not verify we're on the correct ticket page for ">> \o ticket_id
       \o <<".\nCurrent URL: ">> \o cur
       \o <<"\nThis may be due to a login page or other redirect.",
            "\nPlease try again after ensuring you're logged in.">>

\* Lines 116-124: `let cur = tab.get_url()` and the error that names the
\* ticket and that URL
ReportWrongPage ==
    /\ cpos = "report"
    /\ \E cur \in Urls :
         /\ events' = Append(events, Event("get_url", "Ok", cur, tab))
         /\ client_error' = [kind |-> "wrong_page",
                             text |-> wrong_page_error(TicketId, cur)]
    /\ cpos' = "idle"
    /\ client_result' = "Err"
    /\ KeepHandles
    /\ ClientFrame

ClientNext ==
    \/ CallCompleteRiskAssessment
    \/ GetTab
    \/ NavigateTo
    \/ WaitUntilNavigated
    \/ LoginWait
    \/ OpenEditor
    \/ SelectDropdown
    \/ Save
    \/ ReportWrongPage

ClientSpec == ClientInit /\ [][ClientNext]_<<client_vars>>

\* the operations that interact with the form
FormOps ==
    {"open_risk_assessment_editor", "select_dropdown_option", "save_risk_assessment_changes"}

\* the order the claim fixes: navigate, login wait, open editor, set dropdown
\* (when configured), save
Plan(cfg) ==
    <<"get_tab", "navigate_to", "wait_until_navigated", "wait_for_ticket_page",
      "open_risk_assessment_editor">>
    \o (IF cfg.security_controls_impact # <<>> THEN <<"select_dropdown_option">> ELSE <<>>)
    \o <<"save_risk_assessment_changes">>

\* C20: within one call of complete_risk_assessment the operations come in the
\* fixed order navigate, login wait, open editor, dropdown (when configured),
\* save; no form operation comes before the login wait returned Ok(true), save
\* comes only after the editor was opened with success, and Ok is returned only
\* right after save succeeded.
C20_StepsInFixedOrder ==
    /\ \A i \in 1..Len(events) :
         \/ events[i].op = "get_url" /\ i = Len(events)
         \/ i <= Len(Plan(config)) /\ events[i].op = Plan(config)[i]
    /\ \A i \in 1..Len(events) :
         events[i].op \in FormOps =>
            \E j \in 1..(i - 1) :
                events[j].op = "wait_for_ticket_page" /\ events[j].res = "Ok(true)"
    /\ \A i \in 1..Len(events) :
         events[i].op = "save_risk_assessment_changes" =>
            \E j \in 1..(i - 1) :
                events[j].op = "open_risk_assessment_editor" /\ events[j].res = "Ok"
    /\ client_result = "Ok" =>
         /\ events # <<>>
         /\ events[Len(events)].op = "save_risk_assessment_changes"
         /\ events[Len(events)].res = "Ok"

\* a call with a configured dropdown value went through all steps and returned Ok
C20_Witness ==
    /\ client_result = "Ok" /\ cpos = "idle"
    /\ config.security_controls_impact = <<"Low">>
    /\ [i \in 1..Len(events) |-> events[i].op] = Plan(config)
    /\ \A i \in 1..Len(events) : events[i].res \in {"Ok", "Ok(true)"}

\* the login driver returned failure in this call
LoginFailed ==
    \E i \in 1..Len(events) :
        events[i].op = "wait_for_ticket_page" /\ events[i].res = "Ok(false)"

Attempts(op) == Cardinality({i \in 1..Len(events) : events[i].op = op})

\* C22: in one call each form operation is attempted at most once; a form
\* operation that fails is the last operation of the call (after a failed open
\* editor neither dropdown nor save is attempted, after a failed dropdown no
\* save), and the call returns the error of that operation.
C22_FormFailureIsFatal ==
    /\ \A op \in FormOps : Attempts(op) <= 1
    /\ \A i \in 1..Len(events) :
         (events[i].op \in FormOps /\ events[i].res = "Err") =>
            /\ i = Len(events)
            /\ cpos = "idle"
            /\ client_result = "Err"
            /\ client_error.kind = events[i].op

\* the editor was opened, the dropdown step failed and the call has returned
C22_Witness ==
    /\ cpos = "idle" /\ client_result = "Err"
    /\ Len(events) = 6
    /\ events[5].op = "open_risk_assessment_editor" /\ events[5].res = "Ok"
    /\ events[6].op = "select_dropdown_option" /\ events[6].res = "Err"

\* C23: without a configured security_controls_impact value no dropdown step is
\* made and none of its errors is returned, and a call whose editor and save
\* clicks succeed returns Ok after open editor and save; with a value, a save is
\* directly preceded by the one successful dropdown step, which is directly
\* preceded by open editor.
C23_DropdownOnlyWithValue ==
    /\ config.security_controls_impact = <<>> =>
         /\ Attempts("select_dropdown_option") = 0
         /\ client_error.kind # "select_dropdown_option"
         /\ \A i \in 1..Len(events) :
              events[i].op = "save_risk_assessment_changes" =>
                 /\ i > 1 /\ events[i - 1].op = "open_risk_assessment_editor"
                 /\ events[i].res = "Ok" => (cpos = "idle" /\ client_result = "Ok")
    /\ config.security_controls_impact # <<>> =>
         /\ Attempts("select_dropdown_option") <= 1
         /\ \A i \in 1..Len(events) :
              /\ events[i].op = "save_risk_assessment_changes" =>
                   /\ i > 2
                   /\ events[i - 1].op = "select_dropdown_option"
                   /\ events[i - 1].res = "Ok"
                   /\ events[i - 1].arg = config.security_controls_impact
                   /\ events[i - 2].op = "open_risk_assessment_editor"
              /\ (events[i].op = "open_risk_assessment_editor" /\ events[i].res = "Ok") =>
                   \/ i = Len(events) /\ cpos = "dropdown"
                   \/ i < Len(events) /\ events[i + 1].op = "select_dropdown_option"

\* a call without a configured value opened the editor, saved and returned Ok
C23_Witness ==
    /\ config.security_controls_impact = <<>>
    /\ cpos = "idle" /\ client_result = "Ok"
    /\ Len(events) = 6
    /\ events[5].op = "open_risk_assessment_editor"
    /\ events[6].op = "save_risk_assessment_changes"

(* ====================================================================== *)
(*        the form operations of JsmWebClient applied to pages            *)
(* ====================================================================== *)

\* form operations applied to one page
MaxFormCalls == 1
\* buttons on a page
MaxButtons == 2

\* thread::sleep(Duration::from_secs(2)) after a click that opened or saved
SettleMs == 2000
\* thread::sleep(Duration::from_millis(750)) after the dropdown was opened
DropdownOpenMs == 750

\* String.prototype.toLowerCase / str::to_lowercase on one fragment
LowerFragment(f) ==
    CASE f = "Edit form"                -> "edit form"
      [] f = "Edit Form"                -> "edit form"
      [] f = "EDIT FORM"                -> "edit form"
      [] f = "Edit risk assessment"     -> "edit risk assessment"
      [] f = "Save"                     -> "save"
      [] f = "Update"                   -> "update"
      [] f = "Done"                     -> "done"
      [] f = "Close"                    -> "close"
      [] f = "Cancel"                   -> "cancel"
      [] f = "Low"                      -> "low"
      [] f = "LOW"                      -> "low"
      [] f = "High"                     -> "high"
      [] f = "Medium"                   -> "medium"
      [] f = "Security Controls Impact" -> "security controls impact"
      [] f = "Performance Impact"       -> "performance impact"
      [] f = "Continue"                 -> "continue"
      [] f = "Sign in"                  -> "sign in"
      [] f = "Use another account"      -> "use another account"
      [] f = "ALICE@ACME.COM"           -> "alice@acme.com"
      [] OTHER                          -> f

LowerText(t) == [i \in 1..Len(t) |-> LowerFragment(t[i])]

\* line 160: the candidate texts of open_risk_assessment_editor
EditCandidates == << <<"Edit form">>, <<"Edit Form">>, <<"Edit risk assessment">> >>
\* line 269: the candidate texts of save_risk_assessment_changes
SaveCandidates == << <<"Save">>, <<"Update">>, <<"Done">>, <<"Close">> >>
\* lines 100-104: the field keywords of the security controls impact dropdown
ImpactKeywords ==
    << <<"security controls impact">>, <<"security impact">>, <<"security control impact">> >>

\* line 133: `targets = candidates.map(t => t.toLowerCase().trim())`
Targets(candidates) == [i \in 1..Len(candidates) |-> Trim(LowerText(candidates[i]))]

\* line 136: `(el.innerText || el.textContent || '').trim().toLowerCase()`
ButtonText(el) == LowerText(Trim(el))

\* FindButton that takes the last element with that text
FindButton_Last(elements, target) ==
    IF \E j \in 1..Len(elements) : ButtonText(elements[j]) = target
      THEN CHOOSE j \in 1..Len(elements) :
              /\ ButtonText(elements[j]) = target
              /\ \A k \in (j + 1)..Len(elements) : ButtonText(elements[k]) # target
    ELSE 0

\* Array.prototype.find: the index of the first element with that text, 0 for none
FindButton(elements, target) ==
    IF \E j \in 1..Len(elements) : ButtonText(elements[j]) = target
      THEN CHOOSE j \in 1..Len(elements) :
              /\ ButtonText(elements[j]) = target
              /\ \A k \in 1..(j - 1) : ButtonText(elements[k]) # target
    ELSE 0

\* lines 135-142: the loop over the targets from target `i` on; the element
\* clicked (0: none) and the value the script returns
RECURSIVE ClickScript(_, _, _)
ClickScript(targets, elements, i) ==
    IF i > Len(targets) THEN [clicked |-> 0, value |-> <<>>]
    ELSE IF FindButton(elements, targets[i]) # 0
      THEN [clicked |-> FindButton(elements, targets[i]), value |-> targets[i]]
    ELSE ClickScript(targets, elements, i + 1)

\* click_button_with_text (lines 128-155): Err when the evaluation fails, else
\* Ok(!return_value.is_empty())
click_button_with_text(candidate_texts, elements, evaluated) ==
    LET run == ClickScript(Targets(candidate_texts), elements, 1)
    IN  IF ~evaluated THEN [res |-> "Err", clicked |-> 0]
        ELSE [res |-> IF run.value # <<>> THEN "Ok(true)" ELSE "Ok(false)",
              clicked |-> run.clicked]

\* lines 161-162 and 270-272: the settle delay after a click
SettleAfter(clicked) == IF clicked = "Ok(true)" THEN SettleMs ELSE 0

\* the error of a form operation that clicks a button: the context of line 149
\* when the evaluation failed, else the operation's own text
ClickError(clicked, own) ==
    CASE clicked = "Err"       -> "Failed to evaluate JavaScript to click button"
      [] clicked = "Ok(false)" -> own
      [] OTHER                 -> "none"

\* lines 166-168
EditorNotFound == "Could not find the 'Edit form' button in the risk assessment section"
\* lines 275-277
SaveNotFound == "Could not find a save/update button after editing the risk assessment"

\* lines 181-183 and 186: textFor(el), trimmed and lower-cased
FieldText(el) == LowerText(Trim(el.text))

\* lines 179 and 188: `keywords.some(k => text.includes(k))`
HasKeyword(text, keywords) ==
    \E i \in 1..Len(keywords) : Contains(text, LowerText(keywords[i]))

\* lines 184-201: the script that opens the dropdown; its status and the element
\* it clicked (0: none)
OpenScript(keywords, fields) ==
    LET hits == {j \in 1..Len(fields) :
                    FieldText(fields[j]) # <<>> /\ HasKeyword(FieldText(fields[j]), keywords)}
        target == CHOOSE j \in hits : \A k \in hits : j <= k
    IN  IF hits = {} THEN [status |-> "field-not-found", clicked |-> 0]
        ELSE IF ~fields[target].clickable THEN [status |-> "clickable-not-found", clicked |-> 0]
        ELSE [status |-> "clicked", clicked |-> target]

\* lines 226-243: the script that picks the option; `desired` is lower-cased,
\* an option's text is trimmed, skipped when empty, and compared lower-cased
SelectScript(desired_value, options) ==
    LET desired == LowerText(desired_value)
        hits == {j \in 1..Len(options) :
                    Trim(options[j]) # <<>> /\ LowerText(Trim(options[j])) = desired}
    IN  IF hits = {} THEN [status |-> "option-not-found", clicked |-> 0]
        ELSE [status |-> "selected", clicked |-> CHOOSE j \in hits : \A k \in hits : j <= k]

\* select_dropdown_option (lines 172-266) applied to a page: the scripts it
\* evaluates, the elements they click, the time it sleeps and its result.
\* `e1` and `e2` tell whether the first and the second evaluation succeed.
SelectDropdownCall(field_keywords, desired_value, page, e1, e2) ==
    LET open   == OpenScript(field_keywords, page.fields)
        pick   == SelectScript(desired_value, page.options)
        o      == IF e1 THEN open.status ELSE "Err"
        p      == IF e2 THEN pick.status ELSE "Err"
        opened == o = "clicked"
    IN  [op      |-> "select_dropdown_option",
         value   |-> desired_value,
         evals   |-> IF opened THEN 2 ELSE 1,
         clicks  |-> (IF e1 /\ open.clicked # 0 THEN <<[field |-> open.clicked]>> ELSE <<>>)
                     \o (IF opened /\ e2 /\ pick.clicked # 0
                           THEN <<[option |-> pick.clicked]>> ELSE <<>>),
         slept   |-> IF opened THEN DropdownOpenMs ELSE 0,
         status  |-> IF opened THEN p ELSE o,
         res     |-> select_dropdown_option(o, p),
         error   |-> CASE ~e1     -> "Failed to evaluate script to open dropdown"
                       [] ~opened -> "Could not locate or open dropdown"
                       [] ~e2     -> "Failed to evaluate script to pick dropdown option"
                       [] p # "selected" -> "Could not select value"
                       [] OTHER   -> "none"]

\* open_risk_assessment_editor / save_risk_assessment_changes applied to a page
ClickCall(op, candidates, own_error, page, evaluated) ==
    LET click == click_button_with_text(candidates, page.buttons, evaluated)
    IN  [op      |-> op,
         value   |-> <<>>,
         evals   |-> 1,
         clicks  |-> IF click.clicked # 0 THEN <<[button |-> click.clicked]>> ELSE <<>>,
         slept   |-> SettleAfter(click.res),
         status  |-> click.res,
         res     |-> IF op = "open_risk_assessment_editor"
                       THEN open_risk_assessment_editor(click.res)
                     ELSE save_risk_assessment_changes(click.res),
         error   |-> ClickError(click.res, own_error)]

\* the texts of the buttons of a page
ButtonTexts ==
    {<<"Edit form">>, <<" ", "EDIT FORM">>, <<"Edit risk assessment">>, <<"Close", " ">>, <<>>}

\* the labelled elements of a page: the field with a control, the field's label
\* without one, another field
FieldLists ==
    LET field  == [text |-> <<" ", "Security Controls Impact">>, clickable |-> TRUE]
        label  == [text |-> <<"Security Controls Impact">>, clickable |-> FALSE]
        other  == [text |-> <<"Performance Impact">>, clickable |-> TRUE]
    IN  {<<>>, <<other>>, <<other, field>>, <<label, field>>}

\* the options an opened dropdown shows
OptionLists ==
    {<<>>, << <<"High">> >>, << <<"High">>, <<"LOW", " ">>, <<"Low">> >>, << <<>>, <<" ">> >>}

\* desired_value: empty, or a value
FormValues == {<<>>, <<"Low">>}

FormPages ==
    [buttons : SeqsUpTo(ButtonTexts, MaxButtons), structural : BOOLEAN,
     fields : FieldLists, options : OptionLists]

FormInit ==
    /\ form_page \in FormPages
    /\ form_value \in FormValues
    /\ form_calls = <<>>
    /\ LoginIdle /\ ProbeIdle /\ ClassIdle /\ StepIdle /\ ClientIdle /\ InjIdle /\ SubIdle

FormFrame ==
    UNCHANGED <<form_page, form_value, probe_vars, class_vars, step_vars, client_vars,
                inj_vars, sub_vars, vars>>

\* self.open_risk_assessment_editor() on the page
CallOpenEditor ==
    /\ Len(form_calls) < MaxFormCalls
    /\ \E evaluated \in BOOLEAN :
         form_calls' = Append(form_calls,
                              ClickCall("open_risk_assessment_editor", EditCandidates,
                                        EditorNotFound, form_page, evaluated))
    /\ FormFrame

\* self.save_risk_assessment_changes() on the page
CallSave ==
    /\ Len(form_calls) < MaxFormCalls
    /\ \E evaluated \in BOOLEAN :
         form_calls' = Append(form_calls,
                              ClickCall("save_risk_assessment_changes", SaveCandidates,
                                        SaveNotFound, form_page, evaluated))
    /\ FormFrame

\* self.select_dropdown_option(&[..], value) on the page
CallSelectDropdown ==
    /\ Len(form_calls) < MaxFormCalls
    /\ \E e1 \in BOOLEAN, e2 \in BOOLEAN :
         form_calls' = Append(form_calls,
                              SelectDropdownCall(ImpactKeywords, form_value, form_page, e1, e2))
    /\ FormFrame

FormNext ==
    \/ CallOpenEditor
    \/ CallSave
    \/ CallSelectDropdown

FormSpec == FormInit /\ [][FormNext]_<<form_vars>>

\* the calls of operation `op` made on the page
FormCallsOf(op) == {i \in 1..Len(form_calls) : form_calls[i].op = op}

\* C24: select_dropdown_option called with an empty desired value returns an
\* error without any browser interaction: no script is evaluated and no element
\* is clicked.
C24_EmptyValueNoInteraction ==
    \A i \in FormCallsOf("select_dropdown_option") :
        form_calls[i].value = <<>> =>
           /\ form_calls[i].res = "Err"
           /\ form_calls[i].evals = 0
           /\ form_calls[i].clicks = <<>>

\* C25: one client launches at most one browser and opens at most one tab over
\* all its calls, the login wait and the form operations of a call act on the
\* same tab, and a client that stores a tab stores a browser.
C25_OneBrowserOneTab ==
    /\ created.browsers <= 1
    /\ created.tabs <= 1
    /\ \A i \in 1..Len(events), j \in 1..Len(events) :
         (events[i].op = "wait_for_ticket_page" /\ events[j].op \in FormOps) =>
            (events[i].tab # 0 /\ events[i].tab = events[j].tab)
    /\ client.tab # 0 => client.browser

(* ====================================================================== *)
(*            the credential injectors applied to login pages             *)
(* ====================================================================== *)

\* injector calls applied to one page
MaxInjCalls == 1
\* buttons on a login page
MaxInjButtons == 2

\* line 181-183: normalise(text) = (text || '').trim().toLowerCase()
normalise(text) == LowerText(Trim(text))

\* one DOM action of a script: on button `button` (0: not a button of the list),
\* with text `text`
Act(act, button, text) == [act |-> act, button |-> button, text |-> text]

\* the least element of a non-empty set of indices
First(hits) == CHOOSE j \in hits : \A k \in hits : j <= k

\* lines 223-233 and 271-281: focus, `value = username`, the input and change
\* events, and the click on the next button when there is one
FillActs(uname, has_next) ==
    <<Act("focus", 0, ""), Act("value=", 0, uname), Act("event:input", 0, ""),
      Act("event:change", 0, "")>>
    \o (IF has_next THEN <<Act("click:next", 0, "")>> ELSE <<>>)

\* lines 179-233: the script of try_fill_atlassian_username on a page
AtlassianScript(page, uname) ==
    LET targetUsername == <<LowerFragment(uname)>>
        buttons == page.buttons
        relatesToUser(b) ==
            \/ Contains(normalise(b.testid), targetUsername)
            \/ Contains(normalise(b.container), targetUsername)
            \/ Contains(normalise(b.text), targetUsername)
        isContinue(b) ==
            \/ normalise(b.text) = <<"continue">>
            \/ StartsWith(normalise(b.text), <<"sign in">>)
        accountItem(b) ==
            /\ ~relatesToUser(b)
            /\ normalise(b.testid) # <<>>
            /\ Contains(normalise(b.testid), <<"account-item">>)
            /\ Contains(normalise(b.container), targetUsername)
        chosen == {j \in 1..Len(buttons) :
                      /\ normalise(buttons[j].text) # <<>>
                      /\ (relatesToUser(buttons[j]) /\ isContinue(buttons[j]))
                            \/ accountItem(buttons[j])}
        another == {j \in 1..Len(buttons) :
                      Contains(normalise(buttons[j].text), <<"use another account">>)}
    IN  IF chosen # {}
          THEN [status |-> "clicked-account", acts |-> <<Act("click", First(chosen), "")>>]
        ELSE IF another # {}
          THEN [status |-> "opened-use-another", acts |-> <<Act("click", First(another), "")>>]
        ELSE IF ~page.field THEN [status |-> "not-found", acts |-> <<>>]
        ELSE [status |-> IF page.next THEN "filled-and-submitted" ELSE "filled",
              acts |-> FillActs(uname, page.next)]

\* lines 267-281: the script of try_fill_microsoft_username on a page
MicrosoftScript(page, uname) ==
    IF ~page.field THEN [status |-> "not-found", acts |-> <<>>]
    ELSE [status |-> IF page.next THEN "submitted" ELSE "filled",
          acts |-> FillActs(uname, page.next)]

\* line 303: the text of the document: what the page shows besides its buttons,
\* and the containers and texts of the buttons
BodyHas(page, email) ==
    \/ Contains(LowerText(page.body), email)
    \/ \E j \in 1..Len(page.buttons) :
         \/ Contains(LowerText(page.buttons[j].container), email)
         \/ Contains(LowerText(page.buttons[j].text), email)

\* lines 299-313: the script of try_click_account_continue on a page
AccountScript(page, uname) ==
    LET email == <<LowerFragment(uname)>>
        continues == {j \in 1..Len(page.buttons) :
                         LowerText(Trim(page.buttons[j].text)) = <<"continue">>}
    IN  IF ~BodyHas(page, email) THEN [status |-> "email-not-found", acts |-> <<>>]
        ELSE IF continues # {}
          THEN [status |-> "clicked", acts |-> <<Act("click", First(continues), "")>>]
        ELSE [status |-> "button-not-found", acts |-> <<>>]

\* atlassian_result that takes "opened-use-another" for a success
atlassian_result_UseAnotherSucceeds(status) ==
    IF status \in {"filled", "filled-and-submitted", "clicked-account", "opened-use-another"}
      THEN "Ok(true)" ELSE "Ok(false)"

\* lines 247-260: the match on the status of try_fill_atlassian_username
atlassian_result(status) ==
    CASE status \in {"filled", "filled-and-submitted", "clicked-account"} -> "Ok(true)"
      [] status = "opened-use-another" -> "Ok(false)"
      [] status = "not-found"          -> "Ok(false)"
      [] OTHER                         -> "Ok(false)"

\* line 295: Ok(matches!(status, "filled" | "submitted"))
microsoft_result(status) == IF status \in {"filled", "submitted"} THEN "Ok(true)" ELSE "Ok(false)"

\* line 327: Ok(status == "clicked")
account_result(status) == IF status = "clicked" THEN "Ok(true)" ELSE "Ok(false)"

\* what tab.evaluate can come to: the script's value, a result without a string
\* value, or an error
EvalOutcomes == {"value", "no-value", "Err"}

\* an injector applied to a page: tab.evaluate(..)?, the status
\* (`.and_then(|v| v.as_str()..).unwrap_or_default()`) and the result
InjectorCall(injector, page, uname, evaluated) ==
    LET run == CASE injector = "atlassian" -> AtlassianScript(page, uname)
                 [] injector = "microsoft" -> MicrosoftScript(page, uname)
                 [] OTHER                  -> AccountScript(page, uname)
        status == IF evaluated = "value" THEN run.status ELSE ""
    IN  [injector  |-> injector,
         username  |-> uname,
         evaluated |-> evaluated,
         status    |-> status,
         acts      |-> IF evaluated = "value" THEN run.acts ELSE <<>>,
         res       |-> CASE evaluated = "Err"       -> "Err"
                         [] injector = "atlassian" -> atlassian_result(status)
                         [] injector = "microsoft" -> microsoft_result(status)
                         [] OTHER                  -> account_result(status)]

\* the buttons of a login page: the entry of the user's account, the entry of
\* another account, "Use another account", the user's account item, a plain
\* submit button
InjButtons ==
    {[text |-> <<" ", "Continue">>, testid |-> <<>>, container |-> <<"Alice", User>>],
     [text |-> <<"Continue">>, testid |-> <<>>, container |-> <<"bob@acme.com">>],
     [text |-> <<"Use another account">>, testid |-> <<>>, container |-> <<>>],
     [text |-> <<User>>, testid |-> <<"account-item">>, container |-> <<User>>],
     [text |-> <<"Sign in", " with SSO">>, testid |-> <<>>, container |-> <<>>]}

InjPages ==
    [buttons : SeqsUpTo(InjButtons, MaxInjButtons), field : BOOLEAN, next : BOOLEAN,
     body : {<<>>, <<"Signed in as ", "ALICE@ACME.COM">>}]

\* the username handed to an injector: login_username of a configured name
InjUsernames == {User, "ALICE@ACME.COM"}

InjInit ==
    /\ inj_page \in InjPages
    /\ inj_username \in InjUsernames
    /\ inj_calls = <<>>
    /\ LoginIdle /\ ProbeIdle /\ ClassIdle /\ StepIdle /\ ClientIdle /\ FormIdle /\ SubIdle

InjFrame ==
    UNCHANGED <<inj_page, inj_username, probe_vars, class_vars, step_vars, client_vars,
                form_vars, sub_vars, vars>>

\* the call is evaluated on the page and recorded
Applied(injector) ==
    \E evaluated \in EvalOutcomes :
        inj_calls' = Append(inj_calls, InjectorCall(injector, inj_page, inj_username, evaluated))

\* try_fill_atlassian_username(&tab, username)
CallAtlassianUsername ==
    /\ Len(inj_calls) < MaxInjCalls
    /\ Applied("atlassian")
    /\ InjFrame

\* try_fill_microsoft_username(&tab, username)
CallMicrosoftUsername ==
    /\ Len(inj_calls) < MaxInjCalls
    /\ Applied("microsoft")
    /\ InjFrame

\* try_click_account_continue(&tab, username)
CallAccountContinue ==
    /\ Len(inj_calls) < MaxInjCalls
    /\ Applied("account")
    /\ InjFrame

InjNext ==
    \/ CallAtlassianUsername
    \/ CallMicrosoftUsername
    \/ CallAccountContinue

InjectorSpec == InjInit /\ [][InjNext]_<<inj_vars>>

\* the page shows an account-chooser entry for the user: a button with text that
\* relates to the username (by its text, its data-test-id or its container) and
\* carries a call-to-action text ("continue", or beginning with "sign in")
HasChooserEntry(page, uname) ==
    \E j \in 1..Len(page.buttons) :
        LET b == page.buttons[j]
            u == <<LowerFragment(uname)>>
        IN  /\ \/ Contains(normalise(b.text), u)
               \/ Contains(normalise(b.testid), u)
               \/ Contains(normalise(b.container), u)
            /\ \/ normalise(b.text) = <<"continue">>
               \/ StartsWith(normalise(b.text), <<"sign in">>)

\* C26: a username injector (Atlassian or Microsoft) whose script runs on a page
\* with an account-chooser entry for the configured username clicks a button,
\* does nothing else (the username field is neither filled nor submitted), and
\* returns Ok(true).
C26_ChooserEntryShortCircuits ==
    \A i \in 1..Len(inj_calls) :
        LET c == inj_calls[i]
        IN  (/\ c.injector \in {"atlassian", "microsoft"}
             /\ c.evaluated = "value"
             /\ HasChooserEntry(inj_page, c.username)) =>
               /\ Len(c.acts) = 1
               /\ c.acts[1].act = "click" /\ c.acts[1].button # 0
               /\ c.res = "Ok(true)"

\* C27: an injector never assigns the field value in one piece; what it enters
\* it enters as input events of single characters.
C27_TypedCharacterByCharacter ==
    \A i \in 1..Len(inj_calls) :
        \A k \in 1..Len(inj_calls[i].acts) :
            /\ inj_calls[i].acts[k].act # "value="
            /\ inj_calls[i].acts[k].act = "event:input" => inj_calls[i].acts[k].text # ""

\* the statuses the claim counts as the control found and the action performed
SuccessStatuses(injector) ==
    CASE injector = "atlassian" -> {"filled", "filled-and-submitted", "clicked-account"}
      [] injector = "microsoft" -> {"filled", "submitted"}
      [] OTHER                  -> {"clicked"}

\* C28: an injector returns Err exactly when the script evaluation fails;
\* otherwise Ok(true) exactly when the status is one of the injector's success
\* statuses, in which case the script acted on the page, and Ok(false) for every
\* other status, among them opened-use-another, not-found and the empty status
\* of a result without a string value.
C28_StatusToResult ==
    \A i \in 1..Len(inj_calls) :
        LET c == inj_calls[i]
        IN  /\ c.res = "Err" <=> c.evaluated = "Err"
            /\ c.res = "Ok(true)" <=>
                  (c.evaluated # "Err" /\ c.status \in SuccessStatuses(c.injector))
            /\ c.res = "Ok(true)" => c.acts # <<>>
            /\ c.res \in {"Ok(true)", "Ok(false)", "Err"}
            /\ (c.evaluated # "Err"
                  /\ c.status \in {"opened-use-another", "not-found", "email-not-found",
                                   "button-not-found", ""})
                 => c.res = "Ok(false)"

\* the Atlassian injector opened "Use another account" and returned Ok(false)
C28_Witness ==
    \E i \in 1..Len(inj_calls) :
        /\ inj_calls[i].injector = "atlassian"
        /\ inj_calls[i].status = "opened-use-another"
        /\ inj_calls[i].acts # <<>>
        /\ inj_calls[i].res = "Ok(false)"

\* the calls that go through click_button_with_text
ClickCalls ==
    FormCallsOf("open_risk_assessment_editor") \cup FormCallsOf("save_risk_assessment_changes")

\* the candidate texts of such a call, trimmed and lower-cased
CandidatesOf(op) ==
    Targets(IF op = "open_risk_assessment_editor" THEN EditCandidates ELSE SaveCandidates)

\* candidate `text` has a match among the buttons of the page
HasMatch(text) == \E j \in 1..Len(form_page.buttons) : ButtonText(form_page.buttons[j]) = text

\* C29: click_button_with_text clicks at most one element per call; the element
\* clicked is the first whose trimmed, lower-cased text equals the earliest
\* candidate that has a match; it returns true exactly when an element was
\* clicked; when no candidate matches, the script's scan ends in false, not in
\* an error: an error is returned exactly when the evaluation itself fails.
C29_ClicksEarliestCandidate ==
    \A i \in ClickCalls :
        LET c     == form_calls[i]
            cands == CandidatesOf(c.op)
            none  == \A k \in 1..Len(cands) : ~HasMatch(cands[k])
        IN  /\ Len(c.clicks) <= 1
            /\ c.status = "Ok(true)" <=> Len(c.clicks) = 1
            /\ c.status \in {"Ok(true)", "Ok(false)", "Err"}
            /\ c.status # "Err" => (c.status = "Ok(false)" <=> none)
            /\ c.status = "Err" <=> c.error = "Failed to evaluate JavaScript to click button"
            /\ \A n \in 1..Len(c.clicks) :
                 LET j == c.clicks[n].button
                 IN  \E k \in 1..Len(cands) :
                        /\ ButtonText(form_page.buttons[j]) = cands[k]
                        /\ \A e \in 1..(k - 1) : ~HasMatch(cands[e])
                        /\ \A b \in 1..(j - 1) : ButtonText(form_page.buttons[b]) # cands[k]

\* the second button was clicked: it carries the first candidate, the first
\* button a later one
C29_Witness ==
    \E i \in ClickCalls :
        /\ form_calls[i].status = "Ok(true)"
        /\ form_calls[i].clicks = <<[button |-> 2]>>
        /\ ButtonText(form_page.buttons[1]) = <<"edit risk assessment">>
        /\ ButtonText(form_page.buttons[2]) = <<"edit form">>

\* C30: open_risk_assessment_editor and save_risk_assessment_changes return Ok
\* when a control is matched by a candidate text or, failing that, by the fixed
\* structural selector, and an error exactly when neither finds a control; on
\* success they have waited the settle delay.
C30_TextOrStructuralSelector ==
    \A i \in ClickCalls :
        LET c       == form_calls[i]
            cands   == CandidatesOf(c.op)
            by_text == \E k \in 1..Len(cands) : HasMatch(cands[k])
        IN  c.status # "Err" =>
              /\ c.res = "Ok" <=> (by_text \/ form_page.structural)
              /\ c.res = "Err" => c.error \in {EditorNotFound, SaveNotFound}
              /\ c.res = "Ok" => c.slept = SettleMs

\* C31: select_dropdown_option does not verify the selected value: when both
\* script evaluations succeed it returns Ok whenever the field was located and
\* opened, and Err only when the field was not found or not clickable; when
\* locating the field fails, nothing more is evaluated, clicked or waited for.
C31_ErrOnlyWhenFieldNotLocated ==
    \A i \in FormCallsOf("select_dropdown_option") :
        LET c       == form_calls[i]
            located == OpenScript(ImpactKeywords, form_page.fields).status = "clicked"
            failed  == c.error \in {"Failed to evaluate script to open dropdown",
                                    "Failed to evaluate script to pick dropdown option"}
        IN  /\ ~failed => (c.res = "Ok" <=> located)
            /\ (~failed /\ c.res = "Err") =>
                  c.status \in {"field-not-found", "clickable-not-found"}
            /\ (~failed /\ ~located) =>
                  (c.evals = 1 /\ c.clicks = <<>> /\ c.slept = 0)

(* ====================================================================== *)
(*          the Submit command (main.rs) and form::submit_form            *)
(* ====================================================================== *)

\* -d items on the command line
MaxData == 2

\* the field names of the inputs
Keys == {"summary", "risk_assessment"}

\* the values a TOML file gives a key
TomlValues == {[t |-> "string", v |-> <<"t">>], [t |-> "integer", v |-> <<"1">>]}

\* the values a JSON file gives a key
JsonValues == {[t |-> "string", v |-> <<"j">>], [t |-> "number", v |-> <<"2">>]}

\* the maps from some of the keys to values
Maps(values) == UNION {[D -> values] : D \in SUBSET Keys}

\* an input file: not given, unreadable, unparsable, or parsed to a root value
File(kind, t, map) == [kind |-> kind, t |-> t, map |-> map]

\* a TOML document parses to a table
TomlFiles ==
    {File("none", "", <<>>), File("unreadable", "", <<>>), File("unparsable", "", <<>>)}
    \cup {File("value", "table", m) : m \in Maps(TomlValues)}

\* a JSON document parses to an object or to another value (an array here)
JsonFiles ==
    {File("none", "", <<>>), File("unreadable", "", <<>>), File("unparsable", "", <<>>),
     File("value", "array", <<>>)}
    \cup {File("value", "object", m) : m \in Maps(JsonValues)}

\* the -d items, as text fragments
DataItems ==
    {<<"summary", "=", "d">>, <<"risk_assessment", "=", "d">>,
     <<"summary", "=", "d", "=", "x">>, <<"summary">>}

\* lines 130-133: serde_json::to_string(&toml_value) read back as a JSON value
ToJson(value) ==
    CASE value.t = "integer" -> [t |-> "number", v |-> value.v]
      [] value.t = "table"   -> [t |-> "object", v |-> value.v]
      [] OTHER               -> value

\* HashMap::extend: the entries of `more` replace those of `fields`
Extend(fields, more) ==
    [k \in DOMAIN fields \cup DOMAIN more |-> IF k \in DOMAIN more THEN more[k] ELSE fields[k]]

\* str::split_once('='): the text before and after the first '=', or none
split_once(item) ==
    LET at == {i \in 1..Len(item) : item[i] = "="}
        i0 == CHOOSE i \in at : \A j \in at : i <= j
    IN  IF at = {} THEN [found |-> FALSE, key |-> "", value |-> <<>>]
        ELSE [found |-> TRUE,
              key   |-> IF i0 = 1 THEN "" ELSE item[1],
              value |-> SubSeq(item, i0 + 1, Len(item))]

\* lines 160-166: the -d items from item `i` on, inserted in order; an item
\* without '=' is only warned about
RECURSIVE InsertData(_, _, _)
InsertData(fields, data, i) ==
    IF i > Len(data) THEN fields
    ELSE LET kv == split_once(data[i])
         IN  InsertData(IF kv.found
                          THEN Extend(fields, (kv.key :> [t |-> "string", v |-> kv.value]))
                        ELSE fields,
                        data, i + 1)

\* one file merged into the fields (lines 121-141 and 144-157): an error when it
\* cannot be read or parsed or when its root is not an object
LoadFile(fields, file, root) ==
    CASE file.kind = "none"  -> [err |-> "none", fields |-> fields]
      [] file.kind = "unreadable" -> [err |-> "read", fields |-> fields]
      [] file.kind = "unparsable" -> [err |-> "parse", fields |-> fields]
      [] root.t # "object" -> [err |-> "root", fields |-> fields]
      [] OTHER -> [err |-> "none", fields |-> Extend(fields, root.map)]

\* MergedFields that loads the JSON file first and the TOML file over it
MergedFields_TomlOverJson(input) ==
    LET json == LoadFile(<<>>, input.json, [t |-> input.json.t, map |-> input.json.map])
        toml == LoadFile(json.fields, input.toml,
                         [t   |-> ToJson([t |-> input.toml.t, v |-> <<>>]).t,
                          map |-> [k \in DOMAIN input.toml.map |-> ToJson(input.toml.map[k])]])
    IN  IF toml.err # "none" THEN [err |-> toml.err, fields |-> <<>>]
        ELSE IF json.err # "none" THEN [err |-> json.err, fields |-> <<>>]
        ELSE [err |-> "none", fields |-> InsertData(toml.fields, input.data, 1)]

\* lines 117-168: the TOML file, then the JSON file, then the -d items
MergedFields(input) ==
    LET toml == LoadFile(<<>>, input.toml,
                         [t   |-> ToJson([t |-> input.toml.t, v |-> <<>>]).t,
                          map |-> [k \in DOMAIN input.toml.map |-> ToJson(input.toml.map[k])]])
        json == LoadFile(toml.fields, input.json, [t |-> input.json.t, map |-> input.json.map])
    IN  IF toml.err # "none" THEN [err |-> toml.err, fields |-> <<>>]
        ELSE IF json.err # "none" THEN [err |-> json.err, fields |-> <<>>]
        ELSE [err |-> "none", fields |-> InsertData(json.fields, input.data, 1)]

\* sanitize_request_fields that removes nothing
sanitize_request_fields_KeepsAll(fields) == fields

\* form.rs 7-16: fields.remove(k) for the keys of CONFIG_KEYS
sanitize_request_fields(fields) ==
    [k \in DOMAIN fields \ {"risk_assessment"} |-> fields[k]]

SubmitInit ==
    /\ sub_input \in [toml : TomlFiles, json : JsonFiles, data : SeqsUpTo(DataItems, MaxData)]
    /\ sub_pos = "idle"
    /\ sub_fields = <<>>
    /\ sub_log = <<>>
    /\ sub_exit = "none"
    /\ LoginIdle /\ ProbeIdle /\ ClassIdle /\ StepIdle /\ ClientIdle /\ FormIdle /\ InjIdle

SubmitFrame ==
    UNCHANGED <<sub_input, probe_vars, class_vars, step_vars, client_vars, form_vars,
                inj_vars, vars>>

\* the command ends
Exit(how) == sub_pos' = "done" /\ sub_exit' = how

\* main.rs 105-110: load_config(..)?, ensure_credentials(..)?, JsmFormClient::new
LoadConfig ==
    /\ sub_pos = "idle"
    /\ \E ok \in BOOLEAN :
         IF ok THEN sub_pos' = "authenticate" /\ UNCHANGED sub_exit ELSE Exit("Err")
    /\ UNCHANGED <<sub_fields, sub_log>>
    /\ SubmitFrame

\* AfterAuthenticate that goes on whatever authenticate returned
AfterAuthenticate_Always(res) == "merge"

\* main.rs 114: client.authenticate().await?
AfterAuthenticate(res) == IF res = "Ok" THEN "merge" ELSE "done"

\* main.rs 114, lib.rs 70-72, auth.rs 7-45: the test request and its outcome
Authenticate ==
    /\ sub_pos = "authenticate"
    /\ \E res \in {"Ok", "Err"} :
         /\ sub_log' = Append(sub_log, [call |-> "authenticate", res |-> res, fields |-> <<>>])
         /\ sub_pos' = AfterAuthenticate(res)
         /\ sub_exit' = IF AfterAuthenticate(res) = "done" THEN "Err" ELSE sub_exit
    /\ UNCHANGED sub_fields
    /\ SubmitFrame

\* main.rs 117-173: the fields are merged; an input error returns Err, an empty
\* map ends the process with exit(1)
MergeFields ==
    /\ sub_pos = "merge"
    /\ LET merged == MergedFields(sub_input)
       IN  IF merged.err # "none" THEN Exit("Err") /\ UNCHANGED sub_fields
           ELSE /\ sub_fields' = merged.fields
                /\ IF merged.fields = <<>> THEN Exit("exit(1)")
                   ELSE sub_pos' = "submit" /\ UNCHANGED sub_exit
    /\ UNCHANGED sub_log
    /\ SubmitFrame

\* main.rs 176, lib.rs 75-77, form.rs 19-86: the fields are sanitized and posted
\* as requestFieldValues; the result follows the response
SubmitForm ==
    /\ sub_pos = "submit"
    /\ \E res \in {"Ok", "Err"} :
         /\ sub_log' = Append(sub_log, [call   |-> "submit_form", res |-> res,
                                         fields |-> sanitize_request_fields(sub_fields)])
         /\ Exit(res)
    /\ UNCHANGED sub_fields
    /\ SubmitFrame

SubmitNext ==
    \/ LoadConfig
    \/ Authenticate
    \/ MergeFields
    \/ SubmitForm

SubmitSpec == SubmitInit /\ [][SubmitNext]_<<sub_vars>>

\* the fields have been merged and handed on to submit_form
Merged == sub_pos = "submit" \/ (sub_pos = "done" /\ sub_exit \in {"Ok", "Err"} /\ Len(sub_log) = 2)

\* the -d items that give key `k` a value
ItemsFor(k) ==
    {i \in 1..Len(sub_input.data) :
        LET item == sub_input.data[i]
        IN  Len(item) >= 2 /\ item[1] = k /\ item[2] = "="}

\* key `k` is given by the file
InFile(file, k) == file.kind = "value" /\ k \in DOMAIN file.map

\* C32: in the merged fields a key given by a -d item has the string value of
\* the (last) such item; else a key given by the JSON file has the JSON file's
\* value; else a key given by the TOML file has the TOML file's value, as JSON;
\* a key given by no source is not in the map.
C32_MergePrecedence ==
    Merged =>
      \A k \in Keys :
         LET items == ItemsFor(k)
             last_item == sub_input.data[CHOOSE i \in items : \A j \in items : j <= i]
         IN  IF items # {}
               THEN /\ k \in DOMAIN sub_fields
                    /\ sub_fields[k] = [t |-> "string", v |-> SubSeq(last_item, 3, Len(last_item))]
             ELSE IF InFile(sub_input.json, k)
               THEN k \in DOMAIN sub_fields /\ sub_fields[k] = sub_input.json.map[k]
             ELSE IF InFile(sub_input.toml, k)
               THEN /\ k \in DOMAIN sub_fields
                    /\ sub_fields[k].v = sub_input.toml.map[k].v
                    /\ sub_fields[k].t =
                          (IF sub_input.toml.map[k].t = "integer" THEN "number" ELSE "string")
             ELSE k \notin DOMAIN sub_fields

\* summary is given by all three sources and risk_assessment by the TOML file
\* only; the merged map went to submit_form
C32_Witness ==
    /\ Merged /\ sub_pos = "done"
    /\ InFile(sub_input.toml, "summary") /\ InFile(sub_input.json, "summary")
    /\ ItemsFor("summary") # {}
    /\ InFile(sub_input.toml, "risk_assessment") /\ ~InFile(sub_input.json, "risk_assessment")
    /\ ItemsFor("risk_assessment") = {}
    /\ sub_fields["summary"].v[1] = "d"
    /\ sub_fields["risk_assessment"].t = "number"

\* no source gives any key a value
NoFields ==
    \A k \in Keys :
        ItemsFor(k) = {} /\ ~InFile(sub_input.json, k) /\ ~InFile(sub_input.toml, k)

\* a TOML or JSON input parses to something that is not an object at the root
RootNotObject ==
    \/ sub_input.json.kind = "value" /\ sub_input.json.t # "object"
    \/ sub_input.toml.kind = "value" /\ sub_input.toml.t # "table"

\* submit_form was called
Submitted == \E i \in 1..Len(sub_log) : sub_log[i].call = "submit_form"

\* C33: submit_form is called only after authenticate returned Ok, and never
\* when no field is given or when an input's root is not an object; in those
\* cases the command ends with Err or with exit(1) and no request is created.
C33_SubmitOnlyAfterAuth ==
    /\ \A i \in 1..Len(sub_log) :
         sub_log[i].call = "submit_form" =>
            \E j \in 1..(i - 1) : sub_log[j].call = "authenticate" /\ sub_log[j].res = "Ok"
    /\ (NoFields \/ RootNotObject) =>
         /\ ~Submitted
         /\ sub_pos # "submit"
         /\ sub_pos = "done" => sub_exit \in {"Err", "exit(1)"}

\* authenticate succeeded, no field was given, and the process ended with exit(1)
C33_Witness ==
    /\ NoFields /\ ~RootNotObject
    /\ sub_pos = "done" /\ sub_exit = "exit(1)"
    /\ Len(sub_log) = 1 /\ sub_log[1].res = "Ok"
    /\ Len(sub_input.data) = 1

\* C34: sanitize_request_fields removes the key risk_assessment and nothing
\* else, keeps every other value, gives the same map when applied twice, and the
\* fields of a payload that submit_form sends never hold the key risk_assessment.
C34_OnlyRiskAssessmentRemoved ==
    LET once == sanitize_request_fields(sub_fields)
    IN  /\ DOMAIN once = DOMAIN sub_fields \ {"risk_assessment"}
        /\ \A k \in DOMAIN once : once[k] = sub_fields[k]
        /\ sanitize_request_fields(once) = once
        /\ \A i \in 1..Len(sub_log) :
             sub_log[i].call = "submit_form" =>
                /\ "risk_assessment" \notin DOMAIN sub_log[i].fields
                /\ sub_log[i].fields = once

\* fields with risk_assessment and summary were submitted
C34_Witness ==
    /\ Submitted
    /\ DOMAIN sub_fields = {"risk_assessment", "summary"}
    /\ DOMAIN sub_log[2].fields = {"summary"}

\* C35: wait_for_ticket_page returns Ok(true) only from a poll tick of the call
\* whose URL read contains /browse/{ticket_id}: never before the first tick,
\* never from a tick that read another URL, whatever the URL read before the
\* loop, the injector results and the acknowledgments were.
C35_SuccessOnlyFromTicketRead ==
    result = "Ok(true)" =>
       /\ pc = "done"
       /\ ticks > 0
       /\ last.exit = "return"
       /\ last.injector = "none"
       /\ Contains(new_url, <<"/browse/">> \o TicketId)

\* success after an injector had succeeded and pauses had been acknowledged,
\* with another URL read before the loop
C35_Witness ==
    /\ result = "Ok(true)"
    /\ step.enabled /\ step.counter >= 3
    /\ verdict["atlassian"] = "Ok(true)"
    /\ current_url = UrlAtlLogin
    /\ new_url = UrlTicket

\* C36: with step-through enabled, after a tick that issued the 'detected'
\* checkpoint of a provider state and whose injector returned Ok(false), the
\* next tick that reads the same URL does not issue that checkpoint again.
C36_DetectedNotRepeated ==
    [][(/\ step.enabled
        /\ ticks' = ticks + 1
        /\ new_url' = new_url
        /\ last.injector \in Injectors /\ last.outcome = "Ok(false)" /\ last.pauses = 1
        /\ last'.injector = last.injector
        /\ last'.outcome \in {"Ok(false)", "none"})
       => last'.pauses = 0]_vars

\* C37: with step-through disabled wait_for_ticket_page never calls
\* StepController.pause: the step counter keeps its initial value, no iteration
\* and no exit issues a pause, no pause error is returned, and no time is
\* spent beyond the poll sleeps, on the success path, the injector paths and
\* the timeout path alike.
C37_DisabledNeverPauses ==
    ~step.enabled =>
       /\ step.counter = 0
       /\ last.pauses = 0
       /\ ~last.pause_failed
       /\ result # "Err"
       /\ since_change <= ticks * PollSecs

C37_Witness ==
    /\ ~step.enabled
    /\ pc = "done" /\ result = "Ok(false)" /\ last.exit = "timeout"
    /\ verdict["atlassian"] = "Ok(true)"
    /\ verdict["microsoft"] = "Err"

\* the seconds the iteration of this step spent blocked in its pauses
PausedSecs ==
    IF new_url' # new_url THEN since_change' ELSE since_change' - since_change - PollSecs

\* this step is an iteration whose last pause was acknowledged TimeoutSecs or
\* more after the latest timer reset
LateAcknowledgment ==
    /\ ticks' = ticks + 1
    /\ step.enabled
    /\ last'.pauses > 0 /\ ~last'.pause_failed
    /\ elapsed + PollSecs + PausedSecs >= TimeoutSecs

\* this step leaves the loop at its condition check: no URL is read, no
\* iteration runs, and the call returns something other than success
ExitsAtCheck ==
    /\ pc' = "done" /\ result' \in {"Ok(false)", "Err"}
    /\ ticks' = ticks /\ new_url' = new_url /\ current_url' = current_url

\* C38 as stated: after every late acknowledgment of a pause issued inside the
\* loop the loop condition is false, and the step after it leaves the loop
\* without reading the URL.
C38_LateAckExitsLoop ==
    [][/\ LateAcknowledgment => pc' = "loop" /\ ~(elapsed' < TimeoutSecs)
       /\ (pc = "loop" /\ ~(elapsed < TimeoutSecs)) => ExitsAtCheck]_vars

\* C38, amended: pause time counts against the inactivity timer.  After a late
\* acknowledgment the loop condition is false and the next step leaves the loop
\* without reading the URL, whenever the iteration ended in `continue` (the
\* pause after a successful injection) and whenever it reached the URL
\* comparison with the URL it read equal to current_url; the exceptions are the
\* ticket arm's pause (the call returns success) and an iteration whose URL
\* differs from current_url at the comparison (the timer is reset after the pause).
C38_LateAckExitsUnlessReset ==
    [][/\ (LateAcknowledgment /\ last'.exit = "continue")
             => pc' = "loop" /\ ~(elapsed' < TimeoutSecs) /\ current_url' = current_url
       /\ (LateAcknowledgment /\ last'.exit = "fall" /\ new_url' = current_url)
             => pc' = "loop" /\ ~(elapsed' < TimeoutSecs)
       /\ (LateAcknowledgment /\ last'.exit = "fall" /\ new_url' # current_url)
             => pc' = "loop" /\ elapsed' = 0
       /\ (LateAcknowledgment /\ last'.exit = "return")
             => pc' = "done" /\ result' = "Ok(true)"
       /\ (pc = "loop" /\ ~(elapsed < TimeoutSecs)) => ExitsAtCheck]_vars

\* a pause after a successful injection was acknowledged late: fewer poll
\* sleeps than TimeoutSecs have passed and the loop condition is false
C38_Witness ==
    /\ step.enabled
    /\ pc = "loop" /\ ~(elapsed < TimeoutSecs)
    /\ last.exit = "continue" /\ last.outcome = "Ok(true)" /\ last.pauses = 2
    /\ ticks * PollSecs < TimeoutSecs

(* ------------------ the login loop as a running thread ---------------- *)

\* wait_for_ticket_page runs on one thread that is never descheduled for good:
\* the sleep of line 36 returns, tab.get_url() returns, and every pause ends
\* (acknowledged or failed), so an enabled step of the call is eventually taken.
LiveSpec == Init /\ [][Next]_vars /\ WF_vars(Next)

\* C39, first half: the call does not stay in its loop for good.  Every
\* behaviour ends the call or is still polling when the modelled ticks run
\* out, and a call that is still in its loop read a changed URL less than
\* TimeoutSecs + PollSecs ago (disabled StepController: no time passes in a
\* pause), so a URL that stops changing ends the call.
C39_Terminates ==
    /\ <>(pc = "done" \/ ticks = MaxTicks)
    /\ []((LoopRuns /\ ~step.enabled) => since_change < TimeoutSecs + PollSecs)

\* C39, second half: there is no overall deadline.  A tick that reads a URL
\* different from the one read before it, not the ticket URL, before the
\* inactivity window of the earlier URL has expired, leaves the loop running.
\* Stated for a disabled StepController.
C39_RunsWhileUrlChanges ==
    [][(/\ LoopRuns /\ ~step.enabled
        /\ ticks' = ticks + 1
        /\ new_url' # new_url
        /\ ~is_on_ticket_page(new_url', TicketId)
        /\ since_change + PollSecs < TimeoutSecs)
       => LoopRuns']_vars

\* C39: wait_for_ticket_page terminates whenever the URL stops changing and every
\* pause is acknowledged, and a URL that keeps changing before each inactivity
\* window expires, never being the ticket URL, keeps the loop running.
C39_TerminatesOnlyWhenUrlSettles == C39_Terminates /\ C39_RunsWhileUrlChanges

====
